---------------------------- MODULE Spec2Model ----------------------------
(***************************************************************************)
(* Verification of RKSV data export packages (DEPs): the per-register      *)
(* receipt-chain state machine verifyGroup, the R1 algorithm it uses, and  *)
(* the orchestration of verifyGroup over the chunks of a parsed DEP.       *)
(***************************************************************************)
EXTENDS Integers, Sequences, FiniteSets, TLC

(***************************************************************************)
(* Bounds of the model.                                                    *)
(***************************************************************************)
\* receipts handed to the state machine in one behaviour
MaxReceipts == 4
\* registers of one cluster
MaxRegisters == 2
\* calls of verifyGroup in one behaviour
MaxCalls == 2
\* receipts handed in by the time a register after the first is handed its last
MaxClusterReceipts == 3
\* bytes used for the encrypted turnover counter (5 <= size <= 16)
TurnoverSize == 5

(***************************************************************************)
(* Python's None, and names for the values the model draws from.           *)
(***************************************************************************)
None == [none |-> TRUE]

RegisterIds == {1, 2}
OperatorTags == {"AT0", "AT1"}
\* the turnover key handed to the verifier: None or the 32-byte key, written as
\* the number its bytes stand for
TheKey == [bytes |-> 77]
Keys == {None, TheKey}

(***************************************************************************)
(* Bytes and the crypto primitives (utils.sha256, utils.aes256ctr).        *)
(* A string is written as the number its UTF-8 bytes stand for.            *)
(***************************************************************************)
RECURSIVE BitXor(_, _, _)
BitXor(a, b, n) ==
    IF n = 0 THEN 0
    ELSE (((a % 2) + (b % 2)) % 2) + 2 * BitXor(a \div 2, b \div 2, n - 1)

ByteXor(a, b) == BitXor(a, b, 8)

\* utils.sha256: 32 bytes that depend on every byte of the input
sha256(data) == [i \in 1..32 |-> (data * (2 * i - 1) + 7 * i) % 256]

\* utils.aes256ctr(iv, key, input): input xor the key stream of (iv, key)
aes256ctr(iv, key, input) ==
    [i \in 1..Len(input) |->
        ByteXor(input[i], (iv[1] + 3 * iv[((i - 1) % 16) + 1] + 11 * key.bytes + 13 * i) % 256)]

\* int.to_bytes(size, byteorder='big', signed=True)
RECURSIVE ShiftRightBytes(_, _)
ShiftRightBytes(n, k) == IF k = 0 THEN n ELSE ShiftRightBytes(n \div 256, k - 1)

\* a faulty conversion: the sign of the number is lost
to_bytesOfMagnitude(n, size) ==
    [i \in 1..size |-> ShiftRightBytes(IF n < 0 THEN 0 - n ELSE n, size - i) % 256]

to_bytes(n, size) == [i \in 1..size |-> ShiftRightBytes(n, size - i) % 256]

\* int.from_bytes(bytes, byteorder='big', signed=True)
RECURSIVE from_bytes_acc(_, _, _)
from_bytes_acc(bs, i, acc) ==
    IF i > Len(bs) THEN acc ELSE from_bytes_acc(bs, i + 1, acc * 256 + bs[i])

from_bytes(bs) ==
    IF Len(bs) = 0 THEN 0
    ELSE from_bytes_acc(bs, 2, IF bs[1] >= 128 THEN bs[1] - 256 ELSE bs[1])

\* base64.b64encode: the characters of the alphabet are written 0..63, '=' is 64
B64Pad == 64

RECURSIVE b64encode(_)
b64encode(bs) ==
    IF Len(bs) = 0 THEN <<>>
    ELSE IF Len(bs) = 1 THEN
        <<bs[1] \div 4, (bs[1] % 4) * 16, B64Pad, B64Pad>>
    ELSE IF Len(bs) = 2 THEN
        <<bs[1] \div 4, ((bs[1] % 4) * 16) + (bs[2] \div 16), (bs[2] % 16) * 4, B64Pad>>
    ELSE
        <<bs[1] \div 4, ((bs[1] % 4) * 16) + (bs[2] \div 16),
          ((bs[2] % 16) * 4) + (bs[3] \div 64), bs[3] % 64>>
        \o b64encode(SubSeq(bs, 4, Len(bs)))

(***************************************************************************)
(* Receipts. A compact JWS is written as the record of the fields it       *)
(* carries; sums are held in hundredths.                                   *)
(***************************************************************************)
ZdaCode(zda) == IF zda = "AT0" THEN 0 ELSE 1

KindCode(kind) == IF kind = "standard" THEN 0 ELSE IF kind = "dummy" THEN 1 ELSE 2

SignatureCode(sig) ==
    CASE sig = "valid" -> 0
      [] sig = "SignatureSystemFailed" -> 1
      [] sig = "UnsignedNull" -> 2
      [] OTHER -> 3

RECURSIVE SeqSum(_)
SeqSum(s) == IF Len(s) = 0 THEN 0 ELSE s[1] + SeqSum(SubSeq(s, 2, Len(s)))

\* jws.encode("utf-8"): the bytes of a JWS string
JwsBytes(r) ==
    (3 * r.receiptId + 5 * r.registerId + 7 * ZdaCode(r.zda)
        + 11 * ((r.sumA \div 100) % 256) + 13 * ((r.sumB \div 100) % 256)
        + 17 * ((r.sumC \div 100) % 256) + 19 * ((r.sumD \div 100) % 256)
        + 23 * ((r.sumE \div 100) % 256)
        + 29 * KindCode(r.kind) + 31 * SignatureCode(r.signature)
        + 37 * SeqSum(r.previousChain) + 41 * SeqSum(r.encryptedTurnoverCounter)) % 251

\* registerId.encode("utf-8")
RegisterIdBytes(registerId) == 97 + registerId

\* registerId.encode("utf-8") + receiptId.encode("utf-8")
RegisterReceiptIdBytes(registerId, receiptId) == 101 + 16 * registerId + receiptId

\* receipt.Receipt: the derived predicates
isNull(ro) ==
    ro.sumA = 0 /\ ro.sumB = 0 /\ ro.sumC = 0 /\ ro.sumD = 0 /\ ro.sumE = 0

isDummy(ro) == ro.kind = "dummy"

isReversal(ro) == ro.kind = "reversal"

isSignedBroken(ro) == ro.signature = "SignatureSystemFailed"

(***************************************************************************)
(* Algorithm R1 (librksv/algorithms.py).                                   *)
(***************************************************************************)
chainBytes == 8

\* R1.chain
\* a faulty chain: the register ID is hashed whatever the previous receipt
chainRegisterOnly(receipt, previousJwsString) ==
    SubSeq(sha256(RegisterIdBytes(receipt.registerId)), 1, chainBytes)

chain(receipt, previousJwsString) ==
    LET chainingValue ==
            IF previousJwsString # None
            THEN sha256(JwsBytes(previousJwsString))
            ELSE sha256(RegisterIdBytes(receipt.registerId))
    IN  SubSeq(chainingValue, 1, chainBytes)

\* the IV both directions derive from the receipt
turnoverIv(receipt) ==
    SubSeq(sha256(RegisterReceiptIdBytes(receipt.registerId, receipt.receiptId)), 1, 16)

\* R1.encryptTurnoverCounter
encryptTurnoverCounter(receipt, turnoverCounter, key, size) ==
    aes256ctr(turnoverIv(receipt), key, to_bytes(turnoverCounter, size))

\* R1.decryptTurnoverCounter
decryptTurnoverCounter(receipt, encTurnoverCounter, key) ==
    from_bytes(aes256ctr(turnoverIv(receipt), key, encTurnoverCounter))

(***************************************************************************)
(* The single-receipt verifier (verify_receipt.ReceiptVerifier.verifyJWS)  *)
(* as the tagged result it reports: "valid", one of the two tolerated      *)
(* exceptions, or the exception of a fatal error.                          *)
(***************************************************************************)
VerifierErrors ==
    {"MalformedReceiptException", "UnknownAlgorithmException",
     "AlgorithmMismatchException", "CertSerialMismatchException",
     "NoPublicKeyException", "InvalidSignatureException"}

verifyJWS(rv, jws) ==
    CASE jws.signature = "valid" -> "valid"
      [] jws.signature = "SignatureSystemFailed" -> "SignatureSystemFailedException"
      [] jws.signature = "UnsignedNull" ->
            IF isNull(jws) THEN "UnsignedNullReceiptException"
            ELSE "InvalidSignatureException"
      [] OTHER -> jws.signature

(***************************************************************************)
(* verification_state.CashRegisterState                                    *)
(***************************************************************************)
CashRegisterState ==
    [startReceiptJWS |-> None, lastReceiptJWS |-> None,
     lastTurnoverCounter |-> 0, needRestoreReceipt |-> FALSE]

(***************************************************************************)
(* verifyChain: TRUE when no ChainingException is raised.                  *)
(***************************************************************************)
verifyChain(rec, prev, algorithm) ==
    b64encode(chain(rec, prev)) = rec.previousChain

(***************************************************************************)
(* verifyGroup.  The locals of one call are the record                     *)
(*   [cashRegisterState, usedReceiptIds, prev, prevObj, exc]               *)
(* where cashRegisterState and usedReceiptIds are the objects the call     *)
(* mutates in place and exc is None or the exception raised.  Each part of *)
(* the loop body maps the locals to the locals after it.                   *)
(***************************************************************************)
Raise(loc, type, receiptId) ==
    [loc EXCEPT !.exc = [type |-> type, receipt |-> receiptId]]

\* lines 366-374
verifyGroupEnter(cashRegisterState, usedReceiptIds) ==
    LET st == IF cashRegisterState = None THEN CashRegisterState ELSE cashRegisterState
    IN  [cashRegisterState |-> st,
         usedReceiptIds |-> usedReceiptIds,
         prev |-> st.lastReceiptJWS,
         prevObj |-> st.lastReceiptJWS,
         exc |-> None]

\* a faulty try block: an invalid signature is caught like a failed signature
\* system
verifyGroupTryCatchAll(loc, r, rv) ==
    LET outcome == verifyJWS(rv, r)
        st == loc.cashRegisterState
    IN  IF outcome \in VerifierErrors \ {"InvalidSignatureException"}
        THEN Raise(loc, outcome, r.receiptId)
        ELSE IF outcome # "valid" THEN loc
        ELSE IF loc.prevObj # None /\ (~isNull(r) \/ isDummy(r) \/ isReversal(r)) THEN
            IF st.needRestoreReceipt
            THEN Raise(loc, "NoRestoreReceiptAfterSignatureSystemFailureException", r.receiptId)
            ELSE IF isSignedBroken(loc.prevObj)
            THEN [loc EXCEPT !.cashRegisterState.needRestoreReceipt = TRUE]
            ELSE loc
        ELSE [loc EXCEPT !.cashRegisterState.needRestoreReceipt = FALSE]

\* a faulty try block: a receipt that is not a restore receipt is turned down as
\* soon as its predecessor is signed broken
verifyGroupTryStrict(loc, r, rv) ==
    LET outcome == verifyJWS(rv, r)
        st == loc.cashRegisterState
    IN  IF outcome \in VerifierErrors THEN Raise(loc, outcome, r.receiptId)
        ELSE IF outcome # "valid" THEN loc
        ELSE IF loc.prevObj # None /\ (~isNull(r) \/ isDummy(r) \/ isReversal(r)) THEN
            IF st.needRestoreReceipt \/ isSignedBroken(loc.prevObj)
            THEN Raise(loc, "NoRestoreReceiptAfterSignatureSystemFailureException", r.receiptId)
            ELSE loc
        ELSE [loc EXCEPT !.cashRegisterState.needRestoreReceipt = FALSE]

\* a faulty try block: need_restore_receipt, once set, is never cleared
verifyGroupTryNeverClearing(loc, r, rv) ==
    LET outcome == verifyJWS(rv, r)
        st == loc.cashRegisterState
    IN  IF outcome \in VerifierErrors THEN Raise(loc, outcome, r.receiptId)
        ELSE IF outcome # "valid" THEN loc
        ELSE IF loc.prevObj # None /\ (~isNull(r) \/ isDummy(r) \/ isReversal(r)) THEN
            IF st.needRestoreReceipt
            THEN Raise(loc, "NoRestoreReceiptAfterSignatureSystemFailureException", r.receiptId)
            ELSE IF isSignedBroken(loc.prevObj)
            THEN [loc EXCEPT !.cashRegisterState.needRestoreReceipt = TRUE]
            ELSE loc
        ELSE loc

\* lines 379-391: the try block
verifyGroupTry(loc, r, rv) ==
    LET outcome == verifyJWS(rv, r)
        st == loc.cashRegisterState
    IN  IF outcome \in VerifierErrors THEN Raise(loc, outcome, r.receiptId)
        ELSE IF outcome # "valid" THEN loc
        ELSE IF loc.prevObj # None /\ (~isNull(r) \/ isDummy(r) \/ isReversal(r)) THEN
            IF st.needRestoreReceipt
            THEN Raise(loc, "NoRestoreReceiptAfterSignatureSystemFailureException", r.receiptId)
            ELSE IF isSignedBroken(loc.prevObj)
            THEN [loc EXCEPT !.cashRegisterState.needRestoreReceipt = TRUE]
            ELSE loc
        ELSE [loc EXCEPT !.cashRegisterState.needRestoreReceipt = FALSE]

\* a faulty handling of the caught exception: a register without a previous
\* receipt is let through
verifyGroupCaughtOnInitial(loc, r, rv) ==
    IF verifyJWS(rv, r) = "valid" THEN loc
    ELSE IF loc.prevObj # None /\ loc.cashRegisterState.needRestoreReceipt
    THEN Raise(loc, "NoRestoreReceiptAfterSignatureSystemFailureException", r.receiptId)
    ELSE loc

\* a faulty handling of the caught exception: need_restore_receipt is not looked at
verifyGroupCaughtLenient(loc, r, rv) ==
    IF verifyJWS(rv, r) = "valid" THEN loc
    ELSE IF loc.prevObj = None
    THEN Raise(loc, "SignatureSystemFailedOnInitialReceiptException", r.receiptId)
    ELSE loc

\* a faulty handling of the caught exception: a tolerated receipt that follows
\* a signed-broken receipt asks for a restore receipt
verifyGroupCaughtSettingFlag(loc, r, rv) ==
    IF verifyJWS(rv, r) = "valid" THEN loc
    ELSE IF loc.prevObj = None
    THEN Raise(loc, "SignatureSystemFailedOnInitialReceiptException", r.receiptId)
    ELSE IF loc.cashRegisterState.needRestoreReceipt
    THEN Raise(loc, "NoRestoreReceiptAfterSignatureSystemFailureException", r.receiptId)
    ELSE IF isSignedBroken(loc.prevObj)
    THEN [loc EXCEPT !.cashRegisterState.needRestoreReceipt = TRUE]
    ELSE loc

\* lines 393-401: an exception occurred and was caught
verifyGroupCaught(loc, r, rv) ==
    IF verifyJWS(rv, r) = "valid" THEN loc
    ELSE IF loc.prevObj = None
    THEN Raise(loc, "SignatureSystemFailedOnInitialReceiptException", r.receiptId)
    ELSE IF loc.cashRegisterState.needRestoreReceipt
    THEN Raise(loc, "NoRestoreReceiptAfterSignatureSystemFailureException", r.receiptId)
    ELSE loc

\* a faulty first-receipt block: the sums are not looked at
verifyGroupInitialAnySums(loc, r, prevStartReceiptJWS) ==
    IF loc.prevObj # None THEN loc
    ELSE IF isDummy(r) \/ isReversal(r)
    THEN Raise(loc, "NonstandardTypeOnInitialReceiptException", r.receiptId)
    ELSE IF prevStartReceiptJWS # None THEN
        IF r.zda # "AT0" THEN Raise(loc, "ClusterInOpenSystemException", 0)
        ELSE IF prevStartReceiptJWS.zda # "AT0"
        THEN Raise([loc EXCEPT !.prev = prevStartReceiptJWS,
                               !.prevObj = prevStartReceiptJWS],
                   "ClusterInOpenSystemException", 0)
        ELSE [loc EXCEPT !.prev = prevStartReceiptJWS,
                         !.prevObj = prevStartReceiptJWS,
                         !.cashRegisterState.startReceiptJWS = r]
    ELSE [loc EXCEPT !.cashRegisterState.startReceiptJWS = r]

\* a faulty first-receipt block: the type is looked at before the sums
verifyGroupInitialTypeFirst(loc, r, prevStartReceiptJWS) ==
    IF loc.prevObj # None THEN loc
    ELSE IF isDummy(r) \/ isReversal(r)
    THEN Raise(loc, "NonstandardTypeOnInitialReceiptException", r.receiptId)
    ELSE IF ~isNull(r)
    THEN Raise(loc, "NonzeroTurnoverOnInitialReceiptException", r.receiptId)
    ELSE IF prevStartReceiptJWS # None THEN
        IF r.zda # "AT0" THEN Raise(loc, "ClusterInOpenSystemException", 0)
        ELSE IF prevStartReceiptJWS.zda # "AT0"
        THEN Raise([loc EXCEPT !.prev = prevStartReceiptJWS,
                               !.prevObj = prevStartReceiptJWS],
                   "ClusterInOpenSystemException", 0)
        ELSE [loc EXCEPT !.prev = prevStartReceiptJWS,
                         !.prevObj = prevStartReceiptJWS,
                         !.cashRegisterState.startReceiptJWS = r]
    ELSE [loc EXCEPT !.cashRegisterState.startReceiptJWS = r]

\* a faulty first-receipt block: the tag of the prior register's start receipt
\* is not looked at
verifyGroupInitialOwnTagOnly(loc, r, prevStartReceiptJWS) ==
    IF loc.prevObj # None THEN loc
    ELSE IF ~isNull(r)
    THEN Raise(loc, "NonzeroTurnoverOnInitialReceiptException", r.receiptId)
    ELSE IF isDummy(r) \/ isReversal(r)
    THEN Raise(loc, "NonstandardTypeOnInitialReceiptException", r.receiptId)
    ELSE IF prevStartReceiptJWS # None THEN
        IF r.zda # "AT0" THEN Raise(loc, "ClusterInOpenSystemException", 0)
        ELSE [loc EXCEPT !.prev = prevStartReceiptJWS,
                         !.prevObj = prevStartReceiptJWS,
                         !.cashRegisterState.startReceiptJWS = r]
    ELSE [loc EXCEPT !.cashRegisterState.startReceiptJWS = r]

\* lines 403-418: the register has no previous receipt; ClusterInOpenSystemException
\* carries no receipt ID (0)
verifyGroupInitial(loc, r, prevStartReceiptJWS) ==
    IF loc.prevObj # None THEN loc
    ELSE IF ~isNull(r)
    THEN Raise(loc, "NonzeroTurnoverOnInitialReceiptException", r.receiptId)
    ELSE IF isDummy(r) \/ isReversal(r)
    THEN Raise(loc, "NonstandardTypeOnInitialReceiptException", r.receiptId)
    ELSE IF prevStartReceiptJWS # None THEN
        IF r.zda # "AT0" THEN Raise(loc, "ClusterInOpenSystemException", 0)
        ELSE IF prevStartReceiptJWS.zda # "AT0"
        THEN Raise([loc EXCEPT !.prev = prevStartReceiptJWS,
                               !.prevObj = prevStartReceiptJWS],
                   "ClusterInOpenSystemException", 0)
        ELSE [loc EXCEPT !.prev = prevStartReceiptJWS,
                         !.prevObj = prevStartReceiptJWS,
                         !.cashRegisterState.startReceiptJWS = r]
    ELSE [loc EXCEPT !.cashRegisterState.startReceiptJWS = r]

\* a faulty check against the previous receipt: the register ID is not compared
verifyGroupPreviousAnyRegister(loc, r) ==
    IF loc.prevObj = None THEN loc
    ELSE IF r.receiptId \in loc.usedReceiptIds
    THEN Raise(loc, "DuplicateReceiptIdException", r.receiptId)
    ELSE IF (loc.prevObj.zda = "AT0" /\ r.zda # "AT0")
            \/ (loc.prevObj.zda # "AT0" /\ r.zda = "AT0")
    THEN Raise(loc, "ChangingSystemTypeException", r.receiptId)
    ELSE loc

\* a faulty check against the previous receipt: only a change away from AT0 is
\* noticed
verifyGroupPreviousOneWay(loc, r) ==
    IF loc.prevObj = None THEN loc
    ELSE IF r.receiptId \in loc.usedReceiptIds
    THEN Raise(loc, "DuplicateReceiptIdException", r.receiptId)
    ELSE IF loc.prevObj.registerId # r.registerId
    THEN Raise(loc, "ChangingRegisterIdException", r.receiptId)
    ELSE IF loc.prevObj.zda = "AT0" /\ r.zda # "AT0"
    THEN Raise(loc, "ChangingSystemTypeException", r.receiptId)
    ELSE loc

\* lines 420-431: there is a previous receipt object
verifyGroupPrevious(loc, r) ==
    IF loc.prevObj = None THEN loc
    ELSE IF r.receiptId \in loc.usedReceiptIds
    THEN Raise(loc, "DuplicateReceiptIdException", r.receiptId)
    ELSE IF loc.prevObj.registerId # r.registerId
    THEN Raise(loc, "ChangingRegisterIdException", r.receiptId)
    ELSE IF (loc.prevObj.zda = "AT0" /\ r.zda # "AT0")
            \/ (loc.prevObj.zda # "AT0" /\ r.zda = "AT0")
    THEN Raise(loc, "ChangingSystemTypeException", r.receiptId)
    ELSE loc

\* line 433
verifyGroupRecordId(loc, r) ==
    [loc EXCEPT !.usedReceiptIds = @ \cup {r.receiptId}]

\* lines 435-443
verifyGroupChain(loc, r, prevStartReceiptJWS) ==
    IF verifyChain(r, loc.prev, "R1") THEN loc
    ELSE IF loc.cashRegisterState.startReceiptJWS = r THEN
        IF prevStartReceiptJWS # None
        THEN Raise(loc, "InvalidChainingOnClusterInitialReceiptException", r.receiptId)
        ELSE Raise(loc, "InvalidChainingOnInitialReceiptException", r.receiptId)
    ELSE Raise(loc, "ChainingException", r.receiptId)

\* int(round((sumA + sumB + sumC + sumD + sumE) * 100)), the sums held in hundredths
turnoverDelta(ro) == ro.sumA + ro.sumB + ro.sumC + ro.sumD + ro.sumE

\* a faulty turnover step: dummy receipts are counted too
verifyGroupTurnoverCountingDummies(loc, r, key) ==
    IF key = None THEN loc
    ELSE
        LET newC == loc.cashRegisterState.lastTurnoverCounter + turnoverDelta(r)
        IN  IF ~isReversal(r) /\ ~isDummy(r)
               /\ decryptTurnoverCounter(r, r.encryptedTurnoverCounter, key) # newC
            THEN Raise(loc, "InvalidTurnoverCounterException", r.receiptId)
            ELSE [loc EXCEPT !.cashRegisterState.lastTurnoverCounter = newC]

\* a faulty turnover step: the counter of a reversal is compared as well
verifyGroupTurnoverComparingReversals(loc, r, key) ==
    IF isDummy(r) \/ key = None THEN loc
    ELSE
        LET newC == loc.cashRegisterState.lastTurnoverCounter + turnoverDelta(r)
        IN  IF decryptTurnoverCounter(r, r.encryptedTurnoverCounter, key) # newC
            THEN Raise(loc, "InvalidTurnoverCounterException", r.receiptId)
            ELSE [loc EXCEPT !.cashRegisterState.lastTurnoverCounter = newC]

\* a faulty turnover step: the counter is stored before it is compared
verifyGroupTurnoverStoringFirst(loc, r, key) ==
    IF isDummy(r) \/ key = None THEN loc
    ELSE
        LET newC == loc.cashRegisterState.lastTurnoverCounter + turnoverDelta(r)
            stored == [loc EXCEPT !.cashRegisterState.lastTurnoverCounter = newC]
        IN  IF ~isReversal(r)
               /\ decryptTurnoverCounter(r, r.encryptedTurnoverCounter, key) # newC
            THEN Raise(stored, "InvalidTurnoverCounterException", r.receiptId)
            ELSE stored

\* lines 445-453
verifyGroupTurnover(loc, r, key) ==
    IF isDummy(r) \/ key = None THEN loc
    ELSE
        LET newC == loc.cashRegisterState.lastTurnoverCounter + turnoverDelta(r)
        IN  IF ~isReversal(r)
               /\ decryptTurnoverCounter(r, r.encryptedTurnoverCounter, key) # newC
            THEN Raise(loc, "InvalidTurnoverCounterException", r.receiptId)
            ELSE [loc EXCEPT !.cashRegisterState.lastTurnoverCounter = newC]

\* lines 455-456
verifyGroupAdvance(loc, r) == [loc EXCEPT !.prev = r, !.prevObj = r]

\* a part of the loop body runs only while nothing has been raised
Then(loc, next) == IF loc.exc # None THEN loc ELSE next

\* lines 375-456: the loop body for the receipt r
verifyGroupReceipt(loc, r, rv, key, prevStartReceiptJWS) ==
    LET l1 == verifyGroupTry(loc, r, rv)
        l2 == Then(l1, verifyGroupCaught(l1, r, rv))
        l3 == Then(l2, verifyGroupInitial(l2, r, prevStartReceiptJWS))
        l4 == Then(l3, verifyGroupPrevious(l3, r))
        l5 == Then(l4, verifyGroupRecordId(l4, r))
        l6 == Then(l5, verifyGroupChain(l5, r, prevStartReceiptJWS))
        l7 == Then(l6, verifyGroupTurnover(l6, r, key))
    IN  Then(l7, verifyGroupAdvance(l7, r))

\* lines 375-456: the loop over the group
RECURSIVE verifyGroupLoop(_, _, _, _, _)
verifyGroupLoop(loc, group, rv, key, prevStartReceiptJWS) ==
    IF Len(group) = 0 \/ loc.exc # None THEN loc
    ELSE verifyGroupLoop(verifyGroupReceipt(loc, group[1], rv, key, prevStartReceiptJWS),
                         SubSeq(group, 2, Len(group)), rv, key, prevStartReceiptJWS)

\* a faulty return: the last JWS is not stored into the register state
verifyGroupReturnKeepingLast(loc) == loc

\* lines 458-459
verifyGroupReturn(loc) ==
    [loc EXCEPT !.cashRegisterState.lastReceiptJWS = loc.prev]

\* verifyGroup: the locals at the return, or at the raise when exc is set
verifyGroup(group, rv, key, prevStartReceiptJWS, cashRegisterState, usedReceiptIds) ==
    LET loc == verifyGroupLoop(verifyGroupEnter(cashRegisterState, usedReceiptIds),
                               group, rv, key, prevStartReceiptJWS)
    IN  IF loc.exc # None THEN loc ELSE verifyGroupReturn(loc)

(***************************************************************************)
(* The receipts a cash register may hand in.  A receipt is built the way   *)
(* a register builds it (chained to the JWS before it, the counter         *)
(* encrypted with the key), with its sums, kind and signature drawn from   *)
(* Shapes and with at most MaxFaults of the faults of Faults.              *)
(***************************************************************************)
MaxFaults == 1

Zero == <<0, 0, 0, 0, 0>>
SaleAB == <<10000, 5000, 0, 0, 0>>
SaleD == <<0, 0, 0, 2500, 0>>
RefundD == <<0, 0, 0, -2500, 0>>

Shapes ==
    {[sums |-> Zero, kind |-> "standard", signature |-> "valid"],
     [sums |-> SaleAB, kind |-> "standard", signature |-> "valid"],
     [sums |-> SaleD, kind |-> "standard", signature |-> "valid"],
     [sums |-> SaleD, kind |-> "standard", signature |-> "SignatureSystemFailed"],
     [sums |-> Zero, kind |-> "standard", signature |-> "UnsignedNull"],
     [sums |-> RefundD, kind |-> "reversal", signature |-> "valid"],
     [sums |-> SaleD, kind |-> "dummy", signature |-> "valid"],
     [sums |-> Zero, kind |-> "dummy", signature |-> "valid"],
     [sums |-> Zero, kind |-> "reversal", signature |-> "valid"]}

\* the shapes that are also tried with a fault
FaultShapes ==
    {[sums |-> Zero, kind |-> "standard", signature |-> "valid"],
     [sums |-> SaleD, kind |-> "standard", signature |-> "valid"],
     [sums |-> RefundD, kind |-> "reversal", signature |-> "valid"],
     [sums |-> SaleD, kind |-> "dummy", signature |-> "valid"]}

\* receipts the single-receipt verifier fails on
ErrorShapes ==
    {[sums |-> SaleD, kind |-> "standard", signature |-> e] : e \in VerifierErrors}

Faults == {"chain", "counter", "receiptId", "registerId", "zda"}

FaultSets == {f \in SUBSET Faults : Cardinality(f) <= MaxFaults}

OtherRegisterId(registerId) == IF registerId = 1 THEN 2 ELSE 1

OtherTag(zda) == IF zda = "AT0" THEN "AT1" ELSE "AT0"

Corrupt(bs) == [bs EXCEPT ![1] = (@ + 1) % 256]

\* the receipt of the given shape and ID that follows the JWS prev (None for the
\* first receipt of a register outside a cluster) after turnover counter counter
MakeReceipt(shape, receiptId, registerId, zda, prev, counter, faults) ==
    LET head == [receiptId |-> receiptId, registerId |-> registerId, zda |-> zda,
                 sumA |-> shape.sums[1], sumB |-> shape.sums[2], sumC |-> shape.sums[3],
                 sumD |-> shape.sums[4], sumE |-> shape.sums[5],
                 kind |-> shape.kind, signature |-> shape.signature]
        chainingValue == chain(head, prev)
        newC == (IF shape.kind = "dummy" THEN counter ELSE counter + SeqSum(shape.sums))
                + (IF "counter" \in faults THEN 1 ELSE 0)
    IN  [receiptId |-> receiptId, registerId |-> registerId, zda |-> zda,
         sumA |-> shape.sums[1], sumB |-> shape.sums[2], sumC |-> shape.sums[3],
         sumD |-> shape.sums[4], sumE |-> shape.sums[5],
         kind |-> shape.kind, signature |-> shape.signature,
         previousChain |->
            b64encode(IF "chain" \in faults THEN Corrupt(chainingValue) ELSE chainingValue),
         encryptedTurnoverCounter |->
            encryptTurnoverCounter(head, newC, TheKey, TurnoverSize)]

\* the receipts that may follow when the locals of verifyGroup are loc, issued
\* receipts have been handed in so far and the register honours prevStart; a
\* register without a receipt picks its register ID from ownIds and any tag, and
\* a counter is only got wrong where the verifier holds the key to see it
CandidatesOf(shapes, faultShapes, faultSets, loc, prevStart, issued, ownIds, withKey) ==
    LET before == IF loc.prev # None THEN loc.prev ELSE prevStart
        first == loc.prev = None
        counter == loc.cashRegisterState.lastTurnoverCounter
        ids(f) == IF "receiptId" \in f THEN loc.usedReceiptIds ELSE {issued + 1}
        regs(f) == IF first THEN ownIds
                   ELSE IF "registerId" \in f THEN {OtherRegisterId(loc.prev.registerId)}
                   ELSE {loc.prev.registerId}
        tags(f) == IF first THEN OperatorTags
                   ELSE IF "zda" \in f THEN {OtherTag(loc.prev.zda)}
                   ELSE {loc.prev.zda}
    IN  UNION {UNION {UNION {
            {MakeReceipt(shape, id, reg, zda, before, counter, f) :
                id \in ids(f), reg \in regs(f)} :
            zda \in tags(f)} :
            shape \in IF f = {} THEN shapes ELSE faultShapes} :
            f \in {g \in faultSets :
                    /\ first => g \cap {"registerId", "zda"} = {}
                    /\ ~withKey => "counter" \notin g}}

Candidates(loc, prevStartReceiptJWS, issued, ownIds, withKey) ==
    CandidatesOf(Shapes \cup ErrorShapes, FaultShapes, FaultSets, loc, prevStartReceiptJWS,
                 issued, ownIds, withKey)

(***************************************************************************)
(* Certificates and verifyCert.  A certificate is its serial, its          *)
(* fingerprint and the fingerprint of the certificate whose key signed it; *)
(* a key store is a set of certificates with one certificate per key ID.   *)
(***************************************************************************)
MaxChain == 2
MaxKeyStore == 2

Serials == {0 - 1, 1, 2}
Fingerprints == {1, 2}

Certs == [serial : Serials, fingerprint : Fingerprints, issuer : Fingerprints]

\* key_store.numSerialToKeyId: the sign and the decimal digits of the serial
numSerialToKeyId(serial) ==
    IF serial < 0 THEN <<"-", 0 - serial>> ELSE <<"", serial>>

\* KeyStore.getCert
getCert(keyStore, keyId) ==
    LET found == {c \in keyStore : numSerialToKeyId(c.serial) = keyId}
    IN  IF found = {} THEN None ELSE CHOOSE c \in found : TRUE

\* utils.certFingerprint
certFingerprint(c) == c.fingerprint

\* utils.verifyCert: cert carries a signature made with the key of signer
utilsVerifyCert(cert, signer) == cert.issuer = signer.fingerprint

\* a faulty walk: a certificate whose serial the key store holds is accepted
\* without a look at its fingerprint
RECURSIVE verifyCertWalkAnyFingerprint(_, _, _, _)
verifyCertWalkAnyFingerprint(cert, prev, certChain, keyStore) ==
    IF getCert(keyStore, numSerialToKeyId(prev.serial)) # None THEN None
    ELSE IF Len(certChain) = 0
    THEN [type |-> "UntrustedCertificateException", receipt |-> 0,
          args |-> <<numSerialToKeyId(cert.serial)>>]
    ELSE IF ~utilsVerifyCert(prev, certChain[1])
    THEN [type |-> "CertificateChainBrokenException", receipt |-> 0,
          args |-> <<numSerialToKeyId(prev.serial),
                     numSerialToKeyId(certChain[1].serial)>>]
    ELSE verifyCertWalkAnyFingerprint(cert, certChain[1], Tail(certChain), keyStore)

\* src/verify.py lines 289-318: the walk from prev upwards; None when the
\* certificate is accepted, the exception otherwise
RECURSIVE verifyCertWalk(_, _, _, _)
verifyCertWalk(cert, prev, certChain, keyStore) ==
    LET ksCert == getCert(keyStore, numSerialToKeyId(prev.serial))
    IN  IF ksCert # None
        THEN IF certFingerprint(ksCert) # certFingerprint(prev)
             THEN [type |-> "CertificateSerialCollisionException", receipt |-> 0,
                   args |-> <<numSerialToKeyId(prev.serial), certFingerprint(prev),
                              certFingerprint(ksCert)>>]
             ELSE None
        ELSE IF Len(certChain) = 0
        THEN [type |-> "UntrustedCertificateException", receipt |-> 0,
              args |-> <<numSerialToKeyId(cert.serial)>>]
        ELSE IF ~utilsVerifyCert(prev, certChain[1])
        THEN [type |-> "CertificateChainBrokenException", receipt |-> 0,
              args |-> <<numSerialToKeyId(prev.serial),
                         numSerialToKeyId(certChain[1].serial)>>]
        ELSE verifyCertWalk(cert, certChain[1], Tail(certChain), keyStore)

\* a faulty walk: the certificates of the chain are never looked at
verifyCertLeafOnly(cert, certChain, keyStore) == verifyCertWalk(cert, cert, <<>>, keyStore)

\* lines 277-318
verifyCert(cert, certChain, keyStore) == verifyCertWalk(cert, cert, certChain, keyStore)

\* ReceiptVerifier.fromKeyStore and ReceiptVerifier.fromCert: what the verifier
\* resolves keys with.  The outcome the verifier has for a receipt is held by
\* the receipt (its signature field).
fromKeyStore(keyStore) == [keyStore |-> keyStore]

fromCert(cert) == [cert |-> cert]

(***************************************************************************)
(* verifyParsedDEP and what it calls.  A chunk is a sequence of groups     *)
(* [recs, cert, chain]; the register states of a cluster and its used-ID   *)
(* set are what ClusterState holds.                                        *)
(***************************************************************************)
\* lines 461-512; the result holds the exception when a group raised
RECURSIVE verifyGroupsWithVerifiers(_, _, _, _, _)
verifyGroupsWithVerifiers(groups, key, prevStart, rState, usedRecIds) ==
    IF Len(groups) = 0
    THEN [rState |-> rState, usedRecIds |-> usedRecIds, exc |-> None]
    ELSE LET loc == verifyGroup(groups[1].recs, groups[1].rv, key, prevStart, rState,
                                usedRecIds)
         IN  IF loc.exc # None
             THEN [rState |-> loc.cashRegisterState, usedRecIds |-> loc.usedReceiptIds,
                   exc |-> loc.exc]
             ELSE verifyGroupsWithVerifiers(Tail(groups), key, prevStart,
                                            loc.cashRegisterState, loc.usedReceiptIds)

\* lines 555-565: the sets seen when the k-th set of the list is reached
RECURSIVE SeenBefore(_, _)
SeenBefore(sets, k) ==
    IF k <= 1 THEN {} ELSE SeenBefore(sets, k - 1) \cup sets[k - 1]

\* lines 555-565: the first set of the list that repeats an ID, 0 if none does
Clash(sets) ==
    LET bad == {k \in 1..Len(sets) : sets[k] \cap SeenBefore(sets, k) # {}}
    IN  IF bad = {} THEN 0 ELSE CHOOSE k \in bad : \A j \in bad : k <= j

\* a faulty merge: the set the cluster held before is left out of the comparison
updateUsedReceiptIdsRaisesAmongJobs(outUsedRecIds, usedRecIds) ==
    LET k == Clash(outUsedRecIds)
    IN  IF k = 0 THEN {} ELSE outUsedRecIds[k] \cap SeenBefore(outUsedRecIds, k)

\* lines 555-565: the IDs DuplicateReceiptIdException may carry (a set is walked
\* in no fixed order), and the merged set
updateUsedReceiptIdsRaises(outUsedRecIds, usedRecIds) ==
    LET sets == <<usedRecIds>> \o outUsedRecIds
        k == Clash(sets)
    IN  IF k = 0 THEN {} ELSE sets[k] \cap SeenBefore(sets, k)

\* a faulty merge: the set the cluster held before is dropped
updateUsedReceiptIdsOfJobs(outUsedRecIds, usedRecIds) ==
    SeenBefore(outUsedRecIds, Len(outUsedRecIds) + 1)

updateUsedReceiptIds(outUsedRecIds, usedRecIds) ==
    SeenBefore(<<usedRecIds>> \o outUsedRecIds, Len(outUsedRecIds) + 2)

\* lines 579-584: the groups of a chunk of several groups
RECURSIVE packageGroups(_, _)
packageGroups(chunk, keyStore) ==
    IF Len(chunk) = 0 THEN [exc |-> None, groups |-> <<>>]
    ELSE IF chunk[1].cert = None
    THEN [exc |-> [type |-> "NoCertificateGivenException", receipt |-> 0],
          groups |-> <<>>]
    ELSE LET raised == verifyCert(chunk[1].cert, chunk[1].chain, keyStore)
             rest == packageGroups(Tail(chunk), keyStore)
         IN  IF raised # None THEN [exc |-> raised, groups |-> <<>>]
             ELSE IF rest.exc # None THEN rest
             ELSE [exc |-> None,
                   groups |-> <<[recs |-> chunk[1].recs, rv |-> fromCert(chunk[1].cert)]>>
                              \o rest.groups]

\* a faulty packaging: a chunk of one group is never asked for its certificate
packageChunkWithVerifiersNoCert(chunk, keyStore) ==
    IF Len(chunk) = 1
    THEN [exc |-> None,
          groups |-> <<[recs |-> chunk[1].recs, rv |-> fromKeyStore(keyStore)]>>]
    ELSE packageGroups(chunk, keyStore)

\* lines 567-585: the groups with their verifiers, or the exception
packageChunkWithVerifiers(chunk, keyStore) ==
    IF Len(chunk) = 1
    THEN IF chunk[1].cert = None
         THEN [exc |-> None,
               groups |-> <<[recs |-> chunk[1].recs, rv |-> fromKeyStore(keyStore)]>>]
         ELSE LET raised == verifyCert(chunk[1].cert, chunk[1].chain, keyStore)
              IN  IF raised # None THEN [exc |-> raised, groups |-> <<>>]
                  ELSE [exc |-> None,
                        groups |-> <<[recs |-> chunk[1].recs,
                                      rv |-> fromCert(chunk[1].cert)]>>]
    ELSE packageGroups(chunk, keyStore)

\* lines 587-596: the chunks of the next batch
getChunksForProcs(allChunks, nprocs) ==
    SubSeq(allChunks, 1, IF Len(allChunks) < nprocs THEN Len(allChunks) ELSE nprocs)

\* CashRegisterState.fromDEPGroup: the old state with the turnover of the group
\* added (when there is a key) and the last JWS of the group as last receipt
RECURSIVE groupTurnover(_)
groupTurnover(group) ==
    IF Len(group) = 0 THEN 0
    ELSE (IF isDummy(group[1]) THEN 0 ELSE turnoverDelta(group[1]))
         + groupTurnover(Tail(group))

fromDEPGroup(old, group, key) ==
    [old EXCEPT
        !.lastTurnoverCounter = IF key # None THEN @ + groupTurnover(group) ELSE @,
        !.lastReceiptJWS = IF Len(group) = 0 THEN @ ELSE group[Len(group)]]

\* lines 603-606: the state after the groups of a package, projected
RECURSIVE projectGroups(_, _, _)
projectGroups(pkgRState, pkg, key) ==
    IF Len(pkg) = 0 THEN pkgRState
    ELSE projectGroups(fromDEPGroup(pkgRState, pkg[1].recs, key), Tail(pkg), key)

\* lines 600-608: the starting state of each package
RECURSIVE pkgRStates(_, _, _)
pkgRStates(chunksWithVerifiers, key, cashregState) ==
    IF Len(chunksWithVerifiers) = 0 THEN <<>>
    ELSE <<cashregState>>
         \o pkgRStates(Tail(chunksWithVerifiers), key,
                       projectGroups(cashregState, chunksWithVerifiers[1], key))

\* lines 598-611
prepareVerificationTuples(chunksWithVerifiers, key, prevStartJWS, cashregState) ==
    LET states == pkgRStates(chunksWithVerifiers, key, cashregState)
    IN  [i \in 1..Len(chunksWithVerifiers) |->
            [groups |-> chunksWithVerifiers[i], key |-> key, prevStart |-> prevStartJWS,
             rState |-> states[i], usedRecIds |-> {}]]

\* a faulty entry of verifyGroup: an empty set passed in is kept and filled
passedUsedReceiptIdsKept(passed, returned) == returned

\* lines 368-369, 433: what the set the caller passed to verifyGroup holds after
\* the call that returned (or was filling) the set returned; an empty set is
\* left alone and a new one filled, any other set is filled in place
passedUsedReceiptIds(passed, returned) == IF passed = {} THEN passed ELSE returned

\* lines 514-520
verifyGroupsWithVerifiersTuple(args) ==
    verifyGroupsWithVerifiers(args.groups, args.key, args.prevStart, args.rState,
                              args.usedRecIds)

\* src/verify.py lines 757-767: the verifier verifyDEP has for a group, or the
\* exception; one_group is "None", "True" or "False"
verifyDEPVerifier(g, one_group, keyStore) ==
    LET noCert == [type |-> "NoCertificateGivenException", receipt |-> 0]
        raised == verifyCert(g.cert, g.chain, keyStore)
    IN  IF one_group = "True" THEN [exc |-> noCert, rv |-> None]
        ELSE IF g.cert = None
        THEN IF one_group = "False" THEN [exc |-> noCert, rv |-> None]
             ELSE [exc |-> None, rv |-> fromKeyStore(keyStore)]
        ELSE IF raised # None THEN [exc |-> raised, rv |-> None]
        ELSE [exc |-> None, rv |-> fromCert(g.cert)]

(***************************************************************************)
(* The register state machine: a caller that holds the register states of  *)
(* a cluster and its used-ID set and calls verifyGroup, group by group.    *)
(***************************************************************************)
VARIABLES
    cashRegisters,   \* the register states the caller holds, in cluster order
    usedReceiptIds,  \* the used-ID set the caller holds
    key,             \* the turnover key of the run, or None
    pc,              \* "idle", "group" (inside verifyGroup) or "raised"
    call,            \* the running call: its arguments and locals
    issued,          \* receipts handed in so far
    calls,           \* calls of verifyGroup made so far
    last,            \* the receipt consumed last, the locals before and after it
    accepted,        \* the receipts accepted so far, each with its register
    parser,          \* the chunks the parser yields to verifyParsedDEP
    run              \* the running verifyParsedDEP: its arguments and locals

vars == <<cashRegisters, usedReceiptIds, key, pc, call, issued, calls, last, accepted,
          parser, run>>

NoCall == [idx |-> 0, rv |-> None, prevStart |-> None, loc |-> None]

Init ==
    /\ cashRegisters = <<>>
    /\ usedReceiptIds = {}
    /\ key \in Keys
    /\ pc = "idle"
    /\ call = NoCall
    /\ issued = 0
    /\ calls = 0
    /\ last = None
    /\ accepted = <<>>
    /\ parser = <<>>
    /\ run = None

\* the start receipt of the register before idx, as a cluster hands it on
PriorStart(idx) ==
    IF idx > 1 THEN cashRegisters[idx - 1].startReceiptJWS ELSE None

\* verifyGroup is called for register idx (Len + 1: a new register)
CallVerifyGroup(idx, prevStart) ==
    /\ pc = "idle"
    /\ calls < MaxCalls
    /\ idx \in 1..(Len(cashRegisters) + 1)
    /\ idx <= MaxRegisters
    /\ prevStart \in {None, PriorStart(idx)}
    /\ pc' = "group"
    /\ call' = [idx |-> idx, rv |-> "rv", prevStart |-> prevStart,
                loc |-> verifyGroupEnter(
                    IF idx <= Len(cashRegisters) THEN cashRegisters[idx] ELSE None,
                    usedReceiptIds)]
    /\ calls' = calls + 1
    /\ UNCHANGED <<cashRegisters, usedReceiptIds, key, issued, last, accepted, parser, run>>

\* the objects the caller holds are the ones the call mutates in place: a
\* register state the caller passed, and a used-ID set that was not empty
CallerRegisters(idx, st) ==
    IF idx <= Len(cashRegisters) THEN [cashRegisters EXCEPT ![idx] = st]
    ELSE cashRegisters

CallerUsed(ids) == IF usedReceiptIds = {} THEN usedReceiptIds ELSE ids

\* one pass of the loop body of verifyGroup
VerifyReceipt(r) ==
    /\ LET loc == verifyGroupReceipt(call.loc, r, call.rv, key, call.prevStart)
       IN  /\ call' = [call EXCEPT !.loc = loc]
           /\ pc' = IF loc.exc # None THEN "raised" ELSE "group"
           /\ cashRegisters' = CallerRegisters(call.idx, loc.cashRegisterState)
           /\ usedReceiptIds' = CallerUsed(loc.usedReceiptIds)
           /\ accepted' = IF loc.exc # None THEN accepted
                          ELSE Append(accepted, [register |-> call.idx, jws |-> r])
    /\ issued' = issued + 1
    /\ last' = [receipt |-> r, before |-> call.loc,
                after |-> verifyGroupReceipt(call.loc, r, call.rv, key, call.prevStart),
                prevStart |-> call.prevStart, idx |-> call.idx]
    /\ UNCHANGED <<key, calls, parser, run>>

\* verifyGroup returns and the caller keeps what it returned
ReturnVerifyGroup ==
    /\ pc = "group"
    /\ LET loc == verifyGroupReturn(call.loc)
       IN  /\ cashRegisters' =
                IF call.idx <= Len(cashRegisters)
                THEN [cashRegisters EXCEPT ![call.idx] = loc.cashRegisterState]
                ELSE Append(cashRegisters, loc.cashRegisterState)
           /\ usedReceiptIds' = loc.usedReceiptIds
    /\ pc' = "idle"
    /\ call' = NoCall
    /\ UNCHANGED <<key, issued, calls, last, accepted, parser, run>>

Next ==
    \/ \E idx \in 1..MaxRegisters :
          \E prevStart \in {None} \cup {cashRegisters[i].startReceiptJWS :
                                           i \in 1..Len(cashRegisters)} :
             CallVerifyGroup(idx, prevStart)
    \/ /\ pc = "group"
       /\ issued < (IF call.idx > 1 THEN MaxClusterReceipts ELSE MaxReceipts)
       /\ \E r \in Candidates(call.loc, call.prevStart, issued,
                               IF cashRegisters = <<>> THEN {1} ELSE RegisterIds,
                               key # None) :
             VerifyReceipt(r)
    \/ ReturnVerifyGroup

Spec == Init /\ [][Next]_vars

(***************************************************************************)
(* The orchestrator: DEPs are laid out chunk by chunk and handed to        *)
(* verifyParsedDEP, whose chunk jobs run in any order.  While a DEP is     *)
(* laid out, call holds the locals of one verifyGroup over all its         *)
(* receipts, from the register state and the used-ID set of the cluster:   *)
(* the sequential run.  Register index 0 stands for no index (a new        *)
(* register).                                                              *)
(***************************************************************************)
MaxDEPs == 2
MaxDEPReceipts == 4
MaxChunks == 3
MaxProcs == 2

DEPShapes ==
    {[sums |-> Zero, kind |-> "standard", signature |-> "valid"],
     [sums |-> SaleD, kind |-> "standard", signature |-> "valid"],
     [sums |-> SaleD, kind |-> "standard", signature |-> "SignatureSystemFailed"]}

DEPFaultShapes == {[sums |-> SaleD, kind |-> "standard", signature |-> "valid"]}

DEPFaultSets == {{}, {"receiptId"}, {"chain"}, {"counter"}}

DEPCertShapes ==
    {[sums |-> Zero, kind |-> "standard", signature |-> "valid"],
     [sums |-> SaleD, kind |-> "standard", signature |-> "valid"]}

DEPCertFaultSets == {{}, {"receiptId"}}

MaxGroups == 2
MaxDEPGroups == 3
MaxCertGroups == 2

\* the key store of the run holds the root certificate; a group comes without
\* a certificate, with a leaf and the root that signed it, or with the bare leaf
RootCert == [serial |-> 2, fingerprint |-> 2, issuer |-> 2]

LeafCert == [serial |-> 0 - 1, fingerprint |-> 1, issuer |-> 2]

TheKeyStore == {RootCert}

GroupCerts ==
    {[cert |-> None, chain |-> <<>>],
     [cert |-> LeafCert, chain |-> <<RootCert>>],
     [cert |-> LeafCert, chain |-> <<>>]}

\* the groups of the DEP in stream order
RECURSIVE Flatten(_)
Flatten(chunks) == IF Len(chunks) = 0 THEN <<>> ELSE chunks[1] \o Flatten(Tail(chunks))

\* ClusterState.getCashRegisterInfo
getCashRegisterInfo(cashRegisterIdx) ==
    IF cashRegisterIdx = 0
    THEN [prevStart |-> IF Len(cashRegisters) > 0
                        THEN cashRegisters[Len(cashRegisters)].startReceiptJWS
                        ELSE None,
          rState |-> CashRegisterState,
          usedRecIds |-> usedReceiptIds]
    ELSE [prevStart |-> PriorStart(cashRegisterIdx),
          rState |-> cashRegisters[cashRegisterIdx],
          usedRecIds |-> usedReceiptIds]

\* ClusterState.updateCashRegisterInfo: the register states afterwards
updateCashRegisterInfo(cashRegisterIdx, rState) ==
    IF cashRegisterIdx = 0 THEN Append(cashRegisters, rState)
    ELSE [cashRegisters EXCEPT ![cashRegisterIdx] = rState]

InitDEP ==
    /\ cashRegisters = <<>>
    /\ usedReceiptIds = {}
    /\ key \in Keys
    /\ pc = "ready"
    /\ call = NoCall
    /\ issued = 0
    /\ calls = 0
    /\ last = None
    /\ accepted = <<>>
    /\ parser = <<>>
    /\ run = None

\* a DEP for register cashRegisterIdx is begun
OpenDEP(cashRegisterIdx) ==
    /\ pc \in {"ready", "returned", "verified"}
    /\ calls < MaxDEPs
    /\ issued < MaxDEPReceipts
    /\ cashRegisterIdx \in 0..Len(cashRegisters)
    /\ cashRegisterIdx = 0 => Len(cashRegisters) < MaxRegisters
    /\ LET info == getCashRegisterInfo(cashRegisterIdx)
       IN  call' = [idx |-> cashRegisterIdx, rv |-> "rv", prevStart |-> info.prevStart,
                    loc |-> verifyGroupEnter(info.rState, info.usedRecIds)]
    /\ parser' = <<>>
    /\ run' = None
    /\ pc' = "parse"
    /\ calls' = calls + 1
    /\ UNCHANGED <<cashRegisters, usedReceiptIds, key, issued, last, accepted>>

\* the parser yields one more receipt: in a new chunk, in a new group of the
\* last chunk or in the last group; a new group comes with the certificate gc
ParseReceipt(r, place, gc) ==
    /\ pc = "parse"
    /\ call.loc.exc = None
    /\ issued < MaxDEPReceipts
    /\ place # "chunk" => parser # <<>>
    /\ place = "chunk" => Len(parser) < MaxChunks
    /\ place = "group" => Len(parser[Len(parser)]) < MaxGroups
    /\ place # "receipt" => Len(Flatten(parser)) < MaxDEPGroups
    /\ place = "receipt" => gc.cert = None
    /\ (place # "receipt" /\ gc.cert # None)
       => Cardinality({i \in 1..Len(Flatten(parser)) : Flatten(parser)[i].cert # None})
          < MaxCertGroups
    /\ LET g == [recs |-> <<r>>, cert |-> gc.cert, chain |-> gc.chain]
           n == Len(parser)
       IN  parser' = CASE place = "chunk" -> Append(parser, <<g>>)
                       [] place = "group" -> [parser EXCEPT ![n] = Append(@, g)]
                       [] OTHER -> [parser EXCEPT ![n][Len(parser[n])].recs = Append(@, r)]
    /\ call' = [call EXCEPT
                   !.loc = verifyGroupReceipt(call.loc, r, call.rv, key, call.prevStart)]
    /\ issued' = issued + 1
    /\ UNCHANGED <<cashRegisters, usedReceiptIds, key, pc, calls, last, accepted, run>>

\* lines 666-670; given keeps what getCashRegisterInfo returned
StartVerifyParsedDEP(nprocs) ==
    /\ pc = "parse"
    /\ parser # <<>>
    /\ LET info == getCashRegisterInfo(call.idx)
       IN  run' = [nprocs |-> nprocs, cashRegisterIdx |-> call.idx,
                   prevStart |-> info.prevStart, rState |-> info.rState,
                   usedRecIds |-> info.usedRecIds, res |-> None, chunks |-> parser,
                   exc |-> None, given |-> info, at |-> "run"]
    /\ pc' = "dep"
    /\ UNCHANGED <<cashRegisters, usedReceiptIds, key, call, issued, calls, last,
                   accepted, parser>>

\* every job of the batch has come back and none has raised
JobsDone ==
    /\ run.res # None
    /\ \A i \in 1..Len(run.res.data) :
          run.res.data[i].out # None /\ run.res.data[i].out.exc = None

\* a faulty choice of the state carried on: that of the first job
outRStatesFirst == run.res.data[1].out.rState

\* lines 677, 691: outRStates[-1], the state the last job of the batch returned
outRStatesLast == run.res.data[Len(run.res.data)].out.rState

\* the used-ID sets the jobs of the batch returned
OutUsedRecIds == [i \in 1..Len(run.res.data) |-> run.res.data[i].out.usedRecIds]

\* a faulty ending: what the run has got so far is written to the cluster
FailCommitting(exc, at) ==
    /\ pc' = "failed"
    /\ run' = [run EXCEPT !.exc = exc, !.at = at]
    /\ cashRegisters' = updateCashRegisterInfo(run.cashRegisterIdx, run.rState)
    /\ usedReceiptIds' = run.usedRecIds
    /\ UNCHANGED <<key, call, issued, calls, last, accepted, parser>>

\* the run ends with the exception exc, raised at "package" (line 672), by a
\* "job" (lines 675, 689) or at the "merge" (lines 676, 690)
Fail(exc, at) ==
    /\ pc' = "failed"
    /\ run' = [run EXCEPT !.exc = exc, !.at = at]
    /\ UNCHANGED <<cashRegisters, usedReceiptIds, key, call, issued, calls, last,
                   accepted, parser>>

\* lines 671-687: the next batch is packaged (which may raise while the jobs
\* of the batch before it are out), the batch before it is merged and the jobs
\* of the batch are handed out
DispatchBatch ==
    /\ pc = "dep"
    /\ run.chunks # <<>>
    /\ LET chunks == getChunksForProcs(run.chunks, run.nprocs)
           pkgs == [i \in 1..Len(chunks) |->
                       packageChunkWithVerifiers(chunks[i], TheKeyStore)]
           unpackaged == {i \in 1..Len(pkgs) : pkgs[i].exc # None}
       IN  IF unpackaged # {}
           THEN Fail(pkgs[CHOOSE i \in unpackaged : \A j \in unpackaged : i <= j].exc,
                     "package")
           ELSE /\ run.res = None \/ JobsDone
                /\ LET clash == IF run.res = None THEN {}
                                ELSE updateUsedReceiptIdsRaises(OutUsedRecIds,
                                                                run.usedRecIds)
                       usedRecIds == IF run.res = None THEN run.usedRecIds
                                     ELSE updateUsedReceiptIds(OutUsedRecIds,
                                                               run.usedRecIds)
                       rState == IF run.res = None THEN run.rState
                                 ELSE outRStatesLast
                       wargs == prepareVerificationTuples(
                                    [i \in 1..Len(pkgs) |-> pkgs[i].groups], key,
                                    run.prevStart, rState)
                   IN  IF clash # {}
                       THEN \E rid \in clash :
                                Fail([type |-> "DuplicateReceiptIdException",
                                      receipt |-> rid], "merge")
                       ELSE /\ run' = [run EXCEPT
                                          !.usedRecIds = usedRecIds,
                                          !.rState = rState,
                                          !.res = [data |-> [i \in 1..Len(wargs) |->
                                                      [args |-> wargs[i], out |-> None]],
                                                   shared |-> {}],
                                          !.chunks = SubSeq(run.chunks, Len(chunks) + 1,
                                                            Len(run.chunks))]
                            /\ UNCHANGED <<cashRegisters, usedReceiptIds, key, pc, call,
                                           issued, calls, last, accepted, parser>>

\* lines 514-520: a worker runs the job i of the batch.  The used-ID set of
\* every job of the batch is the one set object of line 611, res.shared, so
\* the job finds in it what it holds by then
RunJob(i) ==
    /\ pc = "dep"
    /\ run.res # None
    /\ i \in 1..Len(run.res.data)
    /\ run.res.data[i].out = None
    /\ \E out \in {verifyGroupsWithVerifiersTuple(
                       [run.res.data[i].args EXCEPT !.usedRecIds = run.res.shared])} :
          run' = [run EXCEPT
                     !.res.data[i].out = out,
                     !.res.shared = passedUsedReceiptIds(@, out.usedRecIds)]
    /\ UNCHANGED <<cashRegisters, usedReceiptIds, key, pc, call, issued, calls, last,
                   accepted, parser>>

\* lines 675, 689: res.get() raises what a job raised
JobRaises(i) ==
    /\ pc = "dep"
    /\ run.res # None
    /\ i \in 1..Len(run.res.data)
    /\ run.res.data[i].out # None
    /\ run.res.data[i].out.exc # None
    /\ Fail(run.res.data[i].out.exc, "job")

\* lines 689-694: the last batch is merged and the cluster state updated
FinishVerifyParsedDEP ==
    /\ pc = "dep"
    /\ run.chunks = <<>>
    /\ JobsDone
    /\ LET clash == updateUsedReceiptIdsRaises(OutUsedRecIds, run.usedRecIds)
           usedRecIds == updateUsedReceiptIds(OutUsedRecIds, run.usedRecIds)
           rState == outRStatesLast
       IN  IF clash # {}
           THEN \E rid \in clash :
                    Fail([type |-> "DuplicateReceiptIdException", receipt |-> rid],
                         "merge")
           ELSE /\ run' = [run EXCEPT !.usedRecIds = usedRecIds, !.rState = rState]
                /\ cashRegisters' = updateCashRegisterInfo(run.cashRegisterIdx, rState)
                /\ usedReceiptIds' = usedRecIds
                /\ pc' = "returned"
                /\ UNCHANGED <<key, call, issued, calls, last, accepted, parser>>

\* lines 743-750: verifyDEP is called for the DEP; groups are the groups the
\* loops of lines 752-756 have yet to reach, rvs the verifiers of the groups
\* handed to verifyGroup so far
StartVerifyDEP ==
    /\ pc = "parse"
    /\ parser # <<>>
    /\ LET info == getCashRegisterInfo(call.idx)
       IN  run' = [nprocs |-> 0, cashRegisterIdx |-> call.idx,
                   prevStart |-> info.prevStart, rState |-> info.rState,
                   usedRecIds |-> info.usedRecIds, res |-> None, chunks |-> <<>>,
                   exc |-> None, given |-> info, at |-> "verifyDEP",
                   groups |-> Flatten(parser), one_group |-> "None", rvs |-> <<>>]
    /\ pc' = "verifyDEP"
    /\ UNCHANGED <<cashRegisters, usedReceiptIds, key, call, issued, calls, last,
                   accepted, parser>>

\* lines 756-769: the next group of the DEP
VerifyDEPGroup ==
    /\ pc = "verifyDEP"
    /\ run.groups # <<>>
    /\ LET g == run.groups[1]
           v == verifyDEPVerifier(g, run.one_group, TheKeyStore)
       IN  IF v.exc # None
           THEN /\ run' = [run EXCEPT !.exc = v.exc]
                /\ pc' = "rejected"
           ELSE \E loc \in {verifyGroup(g.recs, v.rv, key, run.prevStart, run.rState,
                                        run.usedRecIds)} :
                   /\ run' = [run EXCEPT
                                 !.rState = loc.cashRegisterState,
                                 !.usedRecIds = loc.usedReceiptIds,
                                 !.exc = loc.exc,
                                 !.rvs = Append(@, v.rv),
                                 !.groups = Tail(@),
                                 !.one_group = IF g.cert = None THEN "True" ELSE "False"]
                   /\ pc' = IF loc.exc # None THEN "rejected" ELSE "verifyDEP"
    /\ UNCHANGED <<cashRegisters, usedReceiptIds, key, call, issued, calls, last,
                   accepted, parser>>

\* lines 771-772: the cluster state is updated and returned
ReturnVerifyDEP ==
    /\ pc = "verifyDEP"
    /\ run.groups = <<>>
    /\ cashRegisters' = updateCashRegisterInfo(run.cashRegisterIdx, run.rState)
    /\ usedReceiptIds' = run.usedRecIds
    /\ pc' = "verified"
    /\ UNCHANGED <<key, call, issued, calls, last, accepted, parser, run>>

\* the parser yields a receipt the register may issue next, placed in one of
\* places, a new group with a certificate of groupCerts
Parse(shapes, places, groupCerts, faultSets) ==
    /\ pc = "parse"
    /\ call.loc.exc = None
    /\ \E r \in CandidatesOf(shapes, DEPFaultShapes, faultSets, call.loc,
                             call.prevStart, issued,
                             IF cashRegisters = <<>> THEN {1} ELSE RegisterIds,
                             key # None) :
          \E place \in places, gc \in groupCerts : ParseReceipt(r, place, gc)

\* DEPs of chunks of one group without a certificate
NextDEP ==
    \/ \E cashRegisterIdx \in 0..MaxRegisters : OpenDEP(cashRegisterIdx)
    \/ Parse(DEPShapes, {"chunk", "receipt"}, {[cert |-> None, chain |-> <<>>]},
             DEPFaultSets)
    \/ \E nprocs \in 1..MaxProcs : StartVerifyParsedDEP(nprocs)
    \/ DispatchBatch
    \/ \E i \in 1..MaxProcs : RunJob(i)
    \/ \E i \in 1..MaxProcs : JobRaises(i)
    \/ FinishVerifyParsedDEP

SpecDEP == InitDEP /\ [][NextDEP]_vars

\* DEPs of chunks of up to MaxGroups groups, with and without certificates,
\* verified without a turnover key by verifyParsedDEP or by verifyDEP
InitDEPCert == InitDEP /\ key = None

NextDEPCert ==
    \/ \E cashRegisterIdx \in 0..MaxRegisters : OpenDEP(cashRegisterIdx)
    \/ Parse(DEPCertShapes, {"chunk", "group", "receipt"}, GroupCerts,
             DEPCertFaultSets)
    \/ \E nprocs \in 1..MaxProcs : StartVerifyParsedDEP(nprocs)
    \/ DispatchBatch
    \/ \E i \in 1..MaxProcs : RunJob(i)
    \/ \E i \in 1..MaxProcs : JobRaises(i)
    \/ FinishVerifyParsedDEP
    \/ StartVerifyDEP
    \/ VerifyDEPGroup
    \/ ReturnVerifyDEP

SpecDEPCert == InitDEPCert /\ [][NextDEPCert]_vars

\* the parser yields the start receipt of the register a second time, as the
\* receipt that follows the receipts parsed so far
ParseRepeat(place) ==
    /\ pc = "parse"
    /\ call.loc.exc = None
    /\ call.loc.prev # None
    /\ call.loc.cashRegisterState.startReceiptJWS # None
    /\ ParseReceipt(call.loc.cashRegisterState.startReceiptJWS, place,
                    [cert |-> None, chain |-> <<>>])

DEPRepeatFaultSets == {{}, {"chain"}}

\* DEPs of chunks of one group without a certificate, verified without a
\* turnover key, in which a receipt may break the chain and the start receipt
\* may come again
NextDEPRepeat ==
    \/ \E cashRegisterIdx \in 0..MaxRegisters : OpenDEP(cashRegisterIdx)
    \/ Parse(DEPCertShapes, {"chunk", "receipt"}, {[cert |-> None, chain |-> <<>>]},
             DEPRepeatFaultSets)
    \/ \E place \in {"chunk", "receipt"} : ParseRepeat(place)
    \/ \E nprocs \in 1..MaxProcs : StartVerifyParsedDEP(nprocs)
    \/ DispatchBatch
    \/ \E i \in 1..MaxProcs : RunJob(i)
    \/ \E i \in 1..MaxProcs : JobRaises(i)
    \/ FinishVerifyParsedDEP

SpecDEPRepeat == InitDEPCert /\ [][NextDEPRepeat]_vars

(***************************************************************************)
(* verifyCert on its own: a certificate, a chain and a key store are       *)
(* handed in and verifyCert returns or raises.                             *)
(***************************************************************************)
Chains == UNION {[1..n -> Certs] : n \in 0..MaxChain}

KeyStores ==
    {ks \in SUBSET Certs :
        /\ Cardinality(ks) <= MaxKeyStore
        /\ \A c, d \in ks : c.serial = d.serial => c = d}

InitCert ==
    /\ cashRegisters = <<>>
    /\ usedReceiptIds = {}
    /\ key = None
    /\ pc = "cert"
    /\ \E cert \in Certs, certChain \in Chains, keyStore \in KeyStores :
          call = [cert |-> cert, chain |-> certChain, keyStore |-> keyStore,
                  out |-> None]
    /\ issued = 0
    /\ calls = 0
    /\ last = None
    /\ accepted = <<>>
    /\ parser = <<>>
    /\ run = None

\* lines 295, 315: verifyCert returns
VerifyCertReturns ==
    /\ pc = "cert"
    /\ verifyCert(call.cert, call.chain, call.keyStore) = None
    /\ pc' = "certAccepted"
    /\ UNCHANGED <<cashRegisters, usedReceiptIds, key, call, issued, calls, last,
                   accepted, parser, run>>

\* lines 291-294, 298-300, 311-314, 317-318: verifyCert raises
VerifyCertRaises ==
    /\ pc = "cert"
    /\ verifyCert(call.cert, call.chain, call.keyStore) # None
    /\ pc' = "certRaised"
    /\ call' = [call EXCEPT !.out = verifyCert(call.cert, call.chain, call.keyStore)]
    /\ UNCHANGED <<cashRegisters, usedReceiptIds, key, issued, calls, last, accepted,
                   parser, run>>

NextCert == VerifyCertReturns \/ VerifyCertRaises

SpecCert == InitCert /\ [][NextCert]_vars

(***************************************************************************)
(* The turnover counter on its own: a counter is encrypted for a receipt   *)
(* and decrypted again.  A counter is an integer of at most 32 bits here,  *)
(* written in 5 to 16 bytes.                                               *)
(***************************************************************************)
MinTurnoverSize == 5
MaxTurnoverSize == 16
MaxReceiptId == 3

TurnoverKeys == {TheKey, [bytes |-> 200]}

TurnoverCounters ==
    {0, 1, 0 - 1, 127, 128, 0 - 128, 0 - 129, 255, 256, 0 - 256, 2500, 0 - 2500,
     65535, 65536, 0 - 65536, 2147483647, 0 - 2147483647}

InitTurnover ==
    /\ cashRegisters = <<>>
    /\ usedReceiptIds = {}
    /\ key \in TurnoverKeys
    /\ pc = "counter"
    /\ \E registerId \in RegisterIds, receiptId \in 1..MaxReceiptId,
          size \in MinTurnoverSize..MaxTurnoverSize, c \in TurnoverCounters :
          call = [receipt |-> [registerId |-> registerId, receiptId |-> receiptId],
                  size |-> size, turnoverCounter |-> c, enc |-> None, dec |-> None]
    /\ issued = 0
    /\ calls = 0
    /\ last = None
    /\ accepted = <<>>
    /\ parser = <<>>
    /\ run = None

\* algorithms.py lines 206-212
EncryptTurnoverCounter ==
    /\ pc = "counter"
    /\ call' = [call EXCEPT
                   !.enc = [bytes |-> encryptTurnoverCounter(call.receipt,
                                          call.turnoverCounter, key, call.size)]]
    /\ pc' = "encrypted"
    /\ UNCHANGED <<cashRegisters, usedReceiptIds, key, issued, calls, last, accepted,
                   parser, run>>

\* algorithms.py lines 214-219
DecryptTurnoverCounter ==
    /\ pc = "encrypted"
    /\ call' = [call EXCEPT
                   !.dec = [value |-> decryptTurnoverCounter(call.receipt,
                                          call.enc.bytes, key)]]
    /\ pc' = "decrypted"
    /\ UNCHANGED <<cashRegisters, usedReceiptIds, key, issued, calls, last, accepted,
                   parser, run>>

NextTurnover == EncryptTurnoverCounter \/ DecryptTurnoverCounter

SpecTurnover == InitTurnover /\ [][NextTurnover]_vars

(***************************************************************************)
(* balanceGroupsWithVerifiers (src/verify.py lines 522-553).  A receipt is *)
(* a number, a verifier a name, a group a record [recs, rv].               *)
(***************************************************************************)
MaxBalanceGroups == 3
MaxBalanceReceipts == 2
MaxBalanceProcs == 3

BalanceReceipts == {1, 2}

BalanceVerifiers == {"rv1", "rv2"}

BalanceGroups ==
    [recs : UNION {[1..n -> BalanceReceipts] : n \in 0..MaxBalanceReceipts},
     rv : BalanceVerifiers]

\* line 540: [ (r, rv) for recs, rv in groups for r in recs ]
RECURSIVE recsWithVerifiers(_)
recsWithVerifiers(groups) ==
    IF Len(groups) = 0 THEN <<>>
    ELSE [i \in 1..Len(groups[1].recs) |-> [r |-> groups[1].recs[i], rv |-> groups[1].rv]]
         \o recsWithVerifiers(Tail(groups))

\* a faulty share: the quotient is rounded down, but is at least one
recsPerProcFloor(n, nprocs) == IF n \div nprocs = 0 THEN 1 ELSE n \div nprocs

\* line 542: int(ceil(float(len(recsWithVerifiers)) / nprocs))
recsPerProc(n, nprocs) == (n + nprocs - 1) \div nprocs

\* lines 543-544: the slices [i:i + per] for i in range(0, len, per), per > 0
RECURSIVE subs(_, _)
subs(recs, per) ==
    IF Len(recs) = 0 THEN <<>>
    ELSE IF Len(recs) <= per THEN <<recs>>
    ELSE <<SubSeq(recs, 1, per)>> \o subs(SubSeq(recs, per + 1, Len(recs)), per)

\* lines 549-551: itertools.groupby over the verifier; acc holds the groups
\* made so far, and a receipt joins the last of them when the verifier is the same
RECURSIVE groupby(_, _)
groupby(sub, acc) ==
    IF Len(sub) = 0 THEN acc
    ELSE IF Len(acc) > 0 /\ acc[Len(acc)].rv = sub[1].rv
    THEN groupby(Tail(sub), [acc EXCEPT ![Len(acc)].recs = Append(@, sub[1].r)])
    ELSE groupby(Tail(sub), Append(acc, [recs |-> <<sub[1].r>>, rv |-> sub[1].rv]))

\* lines 546-553, for a share per > 0
balancePackages(groups, per) ==
    [k \in 1..Len(subs(recsWithVerifiers(groups), per)) |->
        groupby(subs(recsWithVerifiers(groups), per)[k], <<>>)]

InitBalance ==
    /\ cashRegisters = <<>>
    /\ usedReceiptIds = {}
    /\ key = None
    /\ pc = "balance"
    /\ \E n \in 0..MaxBalanceGroups, nprocs \in 1..MaxBalanceProcs :
          \E groups \in [1..n -> BalanceGroups] :
             call = [groups |-> groups, nprocs |-> nprocs, pkgs |-> <<>>, exc |-> None]
    /\ issued = 0
    /\ calls = 0
    /\ last = None
    /\ accepted = <<>>
    /\ parser = <<>>
    /\ run = None

\* lines 540-553: balanceGroupsWithVerifiers returns the packages
BalanceReturns ==
    /\ pc = "balance"
    /\ recsPerProc(Len(recsWithVerifiers(call.groups)), call.nprocs) > 0
    /\ call' = [call EXCEPT
                   !.pkgs = balancePackages(call.groups,
                               recsPerProc(Len(recsWithVerifiers(call.groups)),
                                           call.nprocs))]
    /\ pc' = "balanced"
    /\ UNCHANGED <<cashRegisters, usedReceiptIds, key, issued, calls, last, accepted,
                   parser, run>>

\* lines 543-544: range(0, 0, 0) raises ValueError when there is no receipt
BalanceRaises ==
    /\ pc = "balance"
    /\ recsPerProc(Len(recsWithVerifiers(call.groups)), call.nprocs) = 0
    /\ call' = [call EXCEPT !.exc = [type |-> "ValueError", receipt |-> 0]]
    /\ pc' = "balanceRaised"
    /\ UNCHANGED <<cashRegisters, usedReceiptIds, key, issued, calls, last, accepted,
                   parser, run>>

NextBalance == BalanceReturns \/ BalanceRaises

SpecBalance == InitBalance /\ [][NextBalance]_vars

(***************************************************************************)
(* What the properties below speak of.                                     *)
(***************************************************************************)
\* the receipts accepted so far for register idx, oldest first
RegisterLog(idx) ==
    LET own == SelectSeq(accepted, LAMBDA e : e.register = idx)
    IN  [i \in 1..Len(own) |-> own[i].jws]

\* the last pass of the loop body accepted its receipt / raised
Accepted == last # None /\ last.after.exc = None

Raised == last # None /\ last.after.exc # None

RaisedType(type) == Raised /\ last.after.exc.type = type

\* the receipts accepted for the register of the last pass before that pass
LogBefore ==
    LET log == RegisterLog(last.idx)
    IN  IF Accepted THEN SubSeq(log, 1, Len(log) - 1) ELSE log

\* what the single-receipt verifier says of the last receipt
Outcome == verifyJWS("rv", last.receipt)

\* a receipt that restores the signature system: validly signed, null, standard
Restores(r, outcome) ==
    outcome = "valid" /\ isNull(r) /\ ~isDummy(r) /\ ~isReversal(r)

\* the turnover of the non-dummy receipts of a sequence
RECURSIVE Turnover(_)
Turnover(log) ==
    IF Len(log) = 0 THEN 0
    ELSE Turnover(SubSeq(log, 1, Len(log) - 1))
         + (IF isDummy(log[Len(log)]) THEN 0 ELSE turnoverDelta(log[Len(log)]))

(***************************************************************************)
(* C1, C2                                                                  *)
(***************************************************************************)
\* verifyParsedDEP has ended, by a return or by an exception
Ended == pc \in {"returned", "failed"}

\* the sequential run: one verifyGroup over the receipts of the DEP in stream
\* order, from the register state and the used-ID set the caller holds
Sequential == IF call.loc.exc # None THEN call.loc ELSE verifyGroupReturn(call.loc)

\* C1: when the sequential run accepts the DEP, verifyParsedDEP succeeds for
\* every partition into chunks and every nprocs, and leaves the same register
\* state (last receipt, turnover counter, need-restore flag, start receipt) and
\* the same used-ID set as the sequential run.
C1_ParallelEqualsSequential ==
    (Ended /\ Sequential.exc = None)
    => /\ pc = "returned"
       /\ run.rState = Sequential.cashRegisterState
       /\ run.usedRecIds = Sequential.usedReceiptIds

\* C2: when the sequential run rejects the DEP, verifyParsedDEP does not
\* succeed, for every partition into chunks and every nprocs: a chunk job or
\* the merge raises.
C2_RejectionPreserved ==
    (Ended /\ Sequential.exc # None) => pc = "failed"

\* the last receipt follows a receipt of its register and nothing but the
\* restore discipline can be held against it: the single-receipt verifier
\* accepts or tolerates it, its ID is unused, it keeps the register ID and the
\* operator tag, it is chained to its predecessor and its counter is right
WellFormedSuccessor ==
    LET r == last.receipt
        p == last.before.prevObj
    IN  /\ p # None
        /\ Outcome \notin VerifierErrors
        /\ r.receiptId \notin last.before.usedReceiptIds
        /\ r.registerId = p.registerId
        /\ r.zda = p.zda
        /\ r.previousChain = b64encode(SubSeq(sha256(JwsBytes(p)), 1, 8))
        /\ (key # None /\ ~isDummy(r)) =>
              decryptTurnoverCounter(r, r.encryptedTurnoverCounter, key)
              = last.before.cashRegisterState.lastTurnoverCounter + turnoverDelta(r)

C4_RestoreObligation ==
    (/\ last # None
     /\ last.before.prevObj # None
     /\ last.before.cashRegisterState.needRestoreReceipt)
    => /\ Accepted => /\ Restores(last.receipt, Outcome)
                      /\ ~last.after.cashRegisterState.needRestoreReceipt
       /\ (Outcome \notin VerifierErrors /\ ~Restores(last.receipt, Outcome))
          => /\ RaisedType("NoRestoreReceiptAfterSignatureSystemFailureException")
             /\ last.after.exc.receipt = last.receipt.receiptId

\* a null receipt has been accepted while the flag was set, and cleared it
C4_Witness ==
    /\ Accepted
    /\ last.before.prevObj # None
    /\ last.before.cashRegisterState.needRestoreReceipt
    /\ isNull(last.receipt)
    /\ ~last.after.cashRegisterState.needRestoreReceipt

(***************************************************************************)
(* C5                                                                      *)
(***************************************************************************)
\* C5: while no call of verifyGroup has raised, with the used-ID set threaded
\* through the calls, no two accepted receipts of the cluster carry the same
\* receipt ID, the first receipt of a register without a previous receipt
\* included.
C5_ReceiptIdsUnique ==
    pc # "raised" =>
        \A i, j \in 1..Len(accepted) :
            i # j => accepted[i].jws.receiptId # accepted[j].jws.receiptId

(***************************************************************************)
(* C6                                                                      *)
(***************************************************************************)
\* the JWS an accepted receipt has to be chained to: the receipt accepted before
\* it for its register, else the start receipt handed on by the cluster, else
\* None (the register ID is hashed)
C6_Predecessor ==
    IF Len(LogBefore) > 0 THEN LogBefore[Len(LogBefore)] ELSE last.prevStart

C6_ChainValue ==
    SubSeq(sha256(IF C6_Predecessor # None THEN JwsBytes(C6_Predecessor)
                  ELSE RegisterIdBytes(last.receipt.registerId)), 1, 8)

\* C6: the previous_chain of every accepted receipt is the base64 text of the
\* first 8 bytes of the SHA-256 of its predecessor's JWS (the receipt accepted
\* before it for the register; for a register's first receipt the cluster's
\* previous start receipt when supplied, else the register ID); a chaining
\* exception is raised only at a receipt whose previous_chain differs, and its
\* type tells the register's first receipt from the later ones.
C6_UnbrokenChain ==
    last # None =>
        LET good == last.receipt.previousChain = b64encode(C6_ChainValue)
        IN  /\ Accepted => good
            /\ RaisedType("ChainingException") => ~good /\ Len(LogBefore) > 0
            /\ RaisedType("InvalidChainingOnInitialReceiptException")
               => ~good /\ Len(LogBefore) = 0 /\ last.prevStart = None
            /\ RaisedType("InvalidChainingOnClusterInitialReceiptException")
               => ~good /\ Len(LogBefore) = 0 /\ last.prevStart # None

\* a third receipt of a register has been accepted
C6_Witness == Accepted /\ Len(LogBefore) >= 2

(***************************************************************************)
(* C7                                                                      *)
(***************************************************************************)
\* C7: with a key, the decrypted counter of every accepted receipt that is
\* neither dummy nor reversal is the turnover in hundredths of all non-dummy
\* receipts accepted for the register, this one included (the register starts
\* at 0), the state's counter follows that sum, and
\* InvalidTurnoverCounterException is raised only at such a receipt whose
\* decrypted counter differs.
C7_TurnoverReconciled ==
    (key # None /\ last # None) =>
        LET r == last.receipt
            expected == Turnover(LogBefore) + turnoverDelta(r)
            decrypted == decryptTurnoverCounter(r, r.encryptedTurnoverCounter, key)
        IN  /\ (Accepted /\ ~isDummy(r) /\ ~isReversal(r)) => decrypted = expected
            /\ Accepted => last.after.cashRegisterState.lastTurnoverCounter
                            = Turnover(RegisterLog(last.idx))
            /\ RaisedType("InvalidTurnoverCounterException")
               => /\ ~isDummy(r) /\ ~isReversal(r)
                  /\ decrypted # expected
                  /\ last.after.exc.receipt = r.receiptId

\* a null receipt, a sale of 100.00 + 50.00 and a sale of 25.00: 17500
C7_Witness ==
    /\ key # None
    /\ Accepted
    /\ Len(LogBefore) = 2
    /\ turnoverDelta(LogBefore[2]) = 15000
    /\ turnoverDelta(last.receipt) = 2500
    /\ ~isDummy(last.receipt) /\ ~isReversal(last.receipt)
    /\ decryptTurnoverCounter(last.receipt, last.receipt.encryptedTurnoverCounter, key)
       = 17500

(***************************************************************************)
(* C8                                                                      *)
(***************************************************************************)
\* C8: with a key, a reversal never raises InvalidTurnoverCounterException,
\* whatever its encrypted counter holds, yet an accepted reversal moves
\* last_turnover_counter by its sums, and the receipt accepted after a reversal
\* is compared against the sum that includes the reversal.
C8_ReversalNotCompared ==
    (key # None /\ last # None) =>
        LET r == last.receipt
            n == Len(LogBefore)
        IN  /\ isReversal(r)
               => /\ ~RaisedType("InvalidTurnoverCounterException")
                  /\ Accepted =>
                        last.after.cashRegisterState.lastTurnoverCounter
                        = last.before.cashRegisterState.lastTurnoverCounter
                          + (IF isDummy(r) THEN 0 ELSE turnoverDelta(r))
            /\ (/\ Accepted /\ ~isDummy(r) /\ ~isReversal(r)
                /\ n >= 1 /\ isReversal(LogBefore[n]) /\ ~isDummy(LogBefore[n]))
               => decryptTurnoverCounter(r, r.encryptedTurnoverCounter, key)
                  = Turnover(SubSeq(LogBefore, 1, n - 1))
                    + turnoverDelta(LogBefore[n]) + turnoverDelta(r)

\* a reversal whose encrypted counter is wrong has been accepted
C8_Witness ==
    /\ key # None
    /\ Accepted
    /\ isReversal(last.receipt)
    /\ turnoverDelta(last.receipt) # 0
    /\ decryptTurnoverCounter(last.receipt, last.receipt.encryptedTurnoverCounter, key)
       # last.after.cashRegisterState.lastTurnoverCounter

(***************************************************************************)
(* C9, C10                                                                 *)
(***************************************************************************)
\* the last receipt was the first of a register appended to a cluster whose
\* prior register's start receipt is tagged AT0, and it is validly signed,
\* null, standard, tagged AT0, of an unused ID and of the right counter
ClusterInitialReceipt ==
    /\ last # None
    /\ last.idx > 1
    /\ last.prevStart # None
    /\ last.prevStart = cashRegisters[last.idx - 1].startReceiptJWS
    /\ last.prevStart.zda = "AT0"
    /\ last.before.prevObj = None
    /\ Restores(last.receipt, Outcome)
    /\ last.receipt.zda = "AT0"
    /\ last.receipt.receiptId \notin last.before.usedReceiptIds
    /\ key # None =>
          decryptTurnoverCounter(last.receipt, last.receipt.encryptedTurnoverCounter, key)
          = last.before.cashRegisterState.lastTurnoverCounter

ClusterChained ==
    last.receipt.previousChain = b64encode(chain(last.receipt, last.prevStart))

\* C9: the first receipt of a register appended to a cluster, chained to the
\* prior register's start receipt, is accepted and becomes the register's start
\* receipt, whatever the register's register ID.
C9_ClusterLinkage ==
    (ClusterInitialReceipt /\ ClusterChained)
    => Accepted /\ last.after.cashRegisterState.startReceiptJWS = last.receipt

\* C10: the first receipt of a cluster's second register whose previous_chain
\* is not the chain value of the prior register's start receipt raises
\* InvalidChainingOnClusterInitialReceiptException, whatever the register's
\* register ID.
C10_ClusterLinkageFailure ==
    (ClusterInitialReceipt /\ ~ClusterChained)
    => RaisedType("InvalidChainingOnClusterInitialReceiptException")

(***************************************************************************)
(* C11                                                                     *)
(***************************************************************************)
\* the last receipt was the first of its register and a cluster previous-start
\* receipt was supplied
ClusterFirst ==
    /\ last # None
    /\ last.before.prevObj = None
    /\ last.prevStart # None

BothClosed == last.receipt.zda = "AT0" /\ last.prevStart.zda = "AT0"

\* C11: with a cluster previous-start receipt supplied and no previous receipt
\* in the register, a first receipt (validly signed, null, standard, so that the
\* tags are looked at) raises ClusterInOpenSystem when its operator tag or the
\* tag of the prior register's start receipt is not "AT0", ClusterInOpenSystem
\* is raised for no other reason, and the receipt is accepted only when both
\* tags are "AT0".
C11_ClusterInOpenSystem ==
    ClusterFirst =>
        /\ Accepted => BothClosed
        /\ (Restores(last.receipt, Outcome) /\ ~BothClosed)
           => RaisedType("ClusterInOpenSystemException")
        /\ RaisedType("ClusterInOpenSystemException")
           => Restores(last.receipt, Outcome) /\ ~BothClosed

\* a first receipt tagged AT0 has been turned down because the prior register's
\* start receipt is not tagged AT0
C11_Witness ==
    /\ ClusterFirst
    /\ last.receipt.zda = "AT0"
    /\ last.prevStart.zda # "AT0"
    /\ RaisedType("ClusterInOpenSystemException")

(***************************************************************************)
(* C12, C13, C14                                                           *)
(***************************************************************************)
\* the last receipt met a register without a previous receipt
Initial == last # None /\ last.before.prevObj = None

\* the first receipt accepted for each register
FirstAccepted ==
    {RegisterLog(idx)[1] : idx \in {i \in 1..MaxRegisters : Len(RegisterLog(i)) > 0}}

\* C12: a validly signed receipt with a nonzero sum that meets a register
\* without a previous receipt raises NonzeroTurnoverOnInitialReceipt, and the
\* first receipt accepted for a register is always a null receipt.
C12_NonzeroInitial ==
    /\ Initial =>
          /\ Accepted => isNull(last.receipt)
          /\ (Outcome = "valid" /\ ~isNull(last.receipt))
             => /\ RaisedType("NonzeroTurnoverOnInitialReceiptException")
                /\ last.after.exc.receipt = last.receipt.receiptId
          /\ RaisedType("NonzeroTurnoverOnInitialReceiptException")
             => ~isNull(last.receipt)
    /\ \A r \in FirstAccepted : isNull(r)

\* a validly signed standard sale has been turned down as a first receipt
C12_Witness ==
    /\ Initial
    /\ Outcome = "valid"
    /\ last.receipt.kind = "standard"
    /\ turnoverDelta(last.receipt) > 0
    /\ RaisedType("NonzeroTurnoverOnInitialReceiptException")

\* C13 as stated: a validly signed dummy or reversal that meets a register
\* without a previous receipt raises NonstandardTypeOnInitialReceipt, whatever
\* its sums.
C13_NonstandardWhateverSums ==
    (Initial /\ Outcome = "valid" /\ (isDummy(last.receipt) \/ isReversal(last.receipt)))
    => RaisedType("NonstandardTypeOnInitialReceiptException")

\* C13 amended: a validly signed dummy or reversal that meets a register
\* without a previous receipt is never accepted; it raises
\* NonstandardTypeOnInitialReceipt when all its sums are zero and
\* NonzeroTurnoverOnInitialReceipt when a sum is not zero.
C13_NonstandardWhenNull ==
    Initial =>
        /\ (Outcome = "valid" /\ (isDummy(last.receipt) \/ isReversal(last.receipt)))
           => IF isNull(last.receipt)
              THEN /\ RaisedType("NonstandardTypeOnInitialReceiptException")
                   /\ last.after.exc.receipt = last.receipt.receiptId
              ELSE RaisedType("NonzeroTurnoverOnInitialReceiptException")
        /\ RaisedType("NonstandardTypeOnInitialReceiptException")
           => isNull(last.receipt) /\ (isDummy(last.receipt) \/ isReversal(last.receipt))

\* a dummy with a nonzero sum has been turned down as a first receipt
C13_Witness ==
    /\ Initial
    /\ Outcome = "valid"
    /\ isDummy(last.receipt)
    /\ ~isNull(last.receipt)
    /\ RaisedType("NonzeroTurnoverOnInitialReceiptException")

\* C14: a receipt for which the single-receipt verifier reports
\* signature-system-failed or unsigned-null and that meets a register without a
\* previous receipt raises SignatureSystemFailedOnInitialReceipt, with or
\* without a cluster previous-start receipt, and the first receipt accepted for
\* a register is always validly signed.
C14_UnsignedInitial ==
    /\ Initial =>
          /\ Outcome \in {"SignatureSystemFailedException", "UnsignedNullReceiptException"}
             => /\ RaisedType("SignatureSystemFailedOnInitialReceiptException")
                /\ last.after.exc.receipt = last.receipt.receiptId
          /\ RaisedType("SignatureSystemFailedOnInitialReceiptException")
             => Outcome \in {"SignatureSystemFailedException",
                             "UnsignedNullReceiptException"}
    /\ \A r \in FirstAccepted : verifyJWS("rv", r) = "valid"

\* an unsigned null receipt has been turned down as the first receipt of a
\* cluster register
C14_Witness ==
    /\ ClusterFirst
    /\ Outcome = "UnsignedNullReceiptException"
    /\ RaisedType("SignatureSystemFailedOnInitialReceiptException")

(***************************************************************************)
(* C15                                                                     *)
(***************************************************************************)
\* receipts that may come after the last receipt in its group
C15_Later ==
    CandidatesOf(DEPShapes, DEPFaultShapes, {{}}, last.before, last.prevStart, issued,
                 {last.receipt.registerId}, FALSE)

\* C15: a receipt on which the single-receipt verifier fails with an error
\* other than signature-system-failed and unsigned-null makes verifyGroup fail
\* with that error at that receipt; the used-ID set and the register state
\* (last receipt, turnover counter) stay as they were before the receipt,
\* whatever receipts follow it in the group; the two tolerated outcomes are
\* never raised as such.
C15_OtherErrorsFatal ==
    last # None =>
        /\ Outcome \in VerifierErrors
           => /\ RaisedType(Outcome)
              /\ last.after.exc.receipt = last.receipt.receiptId
              /\ last.after.usedReceiptIds = last.before.usedReceiptIds
              /\ last.after.cashRegisterState = last.before.cashRegisterState
              /\ last.after.prev = last.before.prev
              /\ \A r2 \in C15_Later :
                    verifyGroupLoop(last.before, <<last.receipt, r2>>, "rv", key,
                                    last.prevStart) = last.after
        /\ Raised => last.after.exc.type \notin {"SignatureSystemFailedException",
                                                 "UnsignedNullReceiptException"}
        /\ (Raised /\ last.after.exc.type \in VerifierErrors) => Outcome \in VerifierErrors

\* a receipt with an invalid signature has been turned down after the register
\* had accepted two receipts
C15_Witness ==
    /\ Len(LogBefore) >= 2
    /\ Outcome = "InvalidSignatureException"
    /\ RaisedType("InvalidSignatureException")
    /\ last.after.cashRegisterState.lastTurnoverCounter
       = last.before.cashRegisterState.lastTurnoverCounter

(***************************************************************************)
(* C16, C17                                                                *)
(***************************************************************************)
\* the last receipt has a predecessor in its register, and the checks that come
\* before the comparison with that predecessor have nothing against it: the
\* single-receipt verifier accepts or tolerates it, no restore receipt is due
\* and its ID is unused
ComparedWithPredecessor ==
    /\ last # None
    /\ last.before.prevObj # None
    /\ Outcome \notin VerifierErrors
    /\ ~last.before.cashRegisterState.needRestoreReceipt
    /\ last.receipt.receiptId \notin last.before.usedReceiptIds

Closed(r) == r.zda = "AT0"

\* C16: a receipt whose register ID differs from that of its predecessor in the
\* register is never accepted and, once compared with the predecessor, raises
\* ChangingRegisterId; all receipts accepted for a register carry one register
\* ID.
C16_RegisterIdKept ==
    /\ (last # None /\ last.before.prevObj # None) =>
          LET changed == last.receipt.registerId # last.before.prevObj.registerId
          IN  /\ changed => ~Accepted
              /\ (ComparedWithPredecessor /\ changed)
                 => /\ RaisedType("ChangingRegisterIdException")
                    /\ last.after.exc.receipt = last.receipt.receiptId
              /\ RaisedType("ChangingRegisterIdException") => changed
    /\ \A idx \in 1..MaxRegisters :
          \A i, j \in 1..Len(RegisterLog(idx)) :
             RegisterLog(idx)[i].registerId = RegisterLog(idx)[j].registerId

\* a receipt of another register ID has been turned down by a register that
\* had accepted two receipts
C16_Witness ==
    /\ Len(LogBefore) >= 2
    /\ last.receipt.registerId # LogBefore[2].registerId
    /\ RaisedType("ChangingRegisterIdException")

\* C17: a receipt tagged "AT0" whose predecessor in the register is not, or the
\* other way round, is never accepted and, once compared with the predecessor
\* and of the same register ID, raises ChangingSystemType; the receipts accepted
\* for a register are all tagged "AT0" or all tagged otherwise.
C17_SystemTypeKept ==
    /\ (last # None /\ last.before.prevObj # None) =>
          LET changed == Closed(last.receipt) # Closed(last.before.prevObj)
          IN  /\ changed => ~Accepted
              /\ (/\ ComparedWithPredecessor
                  /\ last.receipt.registerId = last.before.prevObj.registerId
                  /\ changed)
                 => /\ RaisedType("ChangingSystemTypeException")
                    /\ last.after.exc.receipt = last.receipt.receiptId
              /\ RaisedType("ChangingSystemTypeException") => changed
    /\ \A idx \in 1..MaxRegisters :
          \A i, j \in 1..Len(RegisterLog(idx)) :
             Closed(RegisterLog(idx)[i]) = Closed(RegisterLog(idx)[j])

\* a receipt tagged "AT0" has been turned down by a register whose receipts
\* are tagged otherwise
C17_Witness ==
    /\ Len(LogBefore) >= 1
    /\ ~Closed(LogBefore[1])
    /\ Closed(last.receipt)
    /\ RaisedType("ChangingSystemTypeException")

(***************************************************************************)
(* C18                                                                     *)
(***************************************************************************)
RECURSIVE GroupsIds(_)
GroupsIds(groups) ==
    IF Len(groups) = 0 THEN {}
    ELSE {groups[1].recs[i].receiptId : i \in 1..Len(groups[1].recs)}
         \cup GroupsIds(Tail(groups))

\* the receipt IDs of the k-th chunk of the DEP
ChunkIds(k) == GroupsIds(parser[k])

\* the IDs that occur in two chunks of the DEP, or in a chunk and in the set
\* the cluster held before the run
RepeatedIds ==
    UNION {ChunkIds(k) \cap (run.given.usedRecIds
                             \cup UNION {ChunkIds(j) : j \in 1..(k - 1)}) :
           k \in 1..Len(parser)}

\* a job of the batch handed out last has raised
SomeJobRaised ==
    /\ run.res # None
    /\ \E i \in 1..Len(run.res.data) :
          run.res.data[i].out # None /\ run.res.data[i].out.exc # None

\* C18: when a receipt ID occurs in two chunks of the DEP, in one batch or in
\* two, or in a chunk and in the used-ID set of the cluster, verifyParsedDEP
\* does not succeed: unless a chunk job has raised, the merge raises
\* DuplicateReceiptId for such an ID.
C18_CrossChunkDuplicates ==
    (Ended /\ RepeatedIds # {})
    => /\ pc = "failed"
       /\ ~SomeJobRaised
          => /\ run.exc.type = "DuplicateReceiptIdException"
             /\ run.exc.receipt \in RepeatedIds

\* C18, with the packaging of a batch told apart: when a receipt ID occurs in
\* two chunks of the DEP or in a chunk and in the used-ID set of the cluster,
\* verifyParsedDEP does not succeed; unless a chunk job has raised or the
\* packaging of a batch has raised (which comes before the merge of the batch
\* before it), the merge raises DuplicateReceiptId for such an ID.
C18_MergeRaisesUnlessPackagingDoes ==
    (Ended /\ RepeatedIds # {})
    => /\ pc = "failed"
       /\ (~SomeJobRaised /\ run.at # "package")
          => /\ run.at = "merge"
             /\ run.exc.type = "DuplicateReceiptIdException"
             /\ run.exc.receipt \in RepeatedIds

\* the merge has raised for an ID that occurs in two chunks of two batches
C18_Witness ==
    /\ pc = "failed"
    /\ run.nprocs = 1
    /\ Len(parser) >= 2
    /\ run.given.usedRecIds = {}
    /\ ~SomeJobRaised
    /\ run.at = "merge"
    /\ run.exc.type = "DuplicateReceiptIdException"
    /\ run.exc.receipt \in ChunkIds(1) \cap ChunkIds(2)

(***************************************************************************)
(* C20                                                                     *)
(***************************************************************************)
\* the walk of verifyCert: the leaf c_0 and the chain c_1, ..., c_n
Walk == <<call.cert>> \o call.chain

\* the serial of c is in the key store
InKeyStore(c) == \E k \in call.keyStore : k.serial = c.serial

\* the key store holds c under its serial
Anchored(c) ==
    \E k \in call.keyStore : k.serial = c.serial /\ k.fingerprint = c.fingerprint

\* the link from Walk[j] to Walk[j + 1] is validly signed
Signed(j) == Walk[j].issuer = Walk[j + 1].fingerprint

\* some c_i is anchored, nothing below it is in the key store and every link
\* below it is validly signed
Trusted ==
    \E i \in 1..Len(Walk) :
        /\ Anchored(Walk[i])
        /\ \A j \in 1..(i - 1) : ~InKeyStore(Walk[j]) /\ Signed(j)

\* C20: verifyCert returns exactly when some c_i has its serial in the key
\* store with a matching fingerprint, no c_j below it has its serial in the key
\* store and every c_j below it is signed by c_{j+1}; it raises
\* CertificateChainBroken(c_j, c_{j+1}) at the first link that is not validly
\* signed when no certificate up to c_j is in the key store; it raises
\* UntrustedCertificate when every link is valid and no certificate of the
\* walk is in the key store.
C20_VerifyCertOutcome ==
    pc \in {"certAccepted", "certRaised"}
    => /\ pc = "certAccepted" <=> Trusted
       /\ \A j \in 1..(Len(Walk) - 1) :
             (/\ ~Signed(j)
              /\ \A k \in 1..(j - 1) : Signed(k)
              /\ \A k \in 1..j : ~InKeyStore(Walk[k]))
             => /\ pc = "certRaised"
                /\ call.out.type = "CertificateChainBrokenException"
                /\ call.out.args = <<numSerialToKeyId(Walk[j].serial),
                                     numSerialToKeyId(Walk[j + 1].serial)>>
       /\ (/\ \A j \in 1..(Len(Walk) - 1) : Signed(j)
           /\ \A k \in 1..Len(Walk) : ~InKeyStore(Walk[k]))
          => /\ pc = "certRaised"
             /\ call.out.type = "UntrustedCertificateException"

\* a leaf is accepted for the topmost certificate of a chain of two, which the
\* key store holds
C20_Witness ==
    /\ pc = "certAccepted"
    /\ Len(call.chain) = MaxChain
    /\ ~InKeyStore(Walk[1])
    /\ ~InKeyStore(Walk[2])
    /\ Anchored(Walk[3])

(***************************************************************************)
(* C19                                                                     *)
(***************************************************************************)
\* the chunk the job i of the batch handed out last was packaged from
JobChunk(i) == parser[Len(parser) - Len(run.chunks) - Len(run.res.data) + i]

\* the chunks verifyParsedDEP packages next
PendingBatch ==
    SubSeq(run.chunks, 1,
           IF Len(run.chunks) < run.nprocs THEN Len(run.chunks) ELSE run.nprocs)

\* a chunk of several groups one of which has no certificate
LacksCertificate(chunk) ==
    Len(chunk) > 1 /\ \E j \in 1..Len(chunk) : chunk[j].cert = None

\* the certificate of the group does not pass verifyCert
Distrusted(g) == g.cert # None /\ verifyCert(g.cert, g.chain, TheKeyStore) # None

\* the groups of a chunk before its first group without a certificate
Certified(chunk) ==
    {j \in 1..Len(chunk) : \A i \in 1..j : chunk[i].cert # None}

\* every job handed out was packaged as the rule has it: the group of a chunk
\* of one group without a certificate has the verifier of the key store, every
\* other group has a certificate that passed verifyCert and the verifier of
\* that certificate
JobsPackaged ==
    (pc \in {"dep", "returned", "failed"} /\ run.res # None)
    => \A i \in 1..Len(run.res.data) :
          LET chunk == JobChunk(i)
              groups == run.res.data[i].args.groups
          IN  /\ Len(groups) = Len(chunk)
              /\ \A j \in 1..Len(chunk) :
                    /\ groups[j].recs = chunk[j].recs
                    /\ chunk[j].cert = None
                       => Len(chunk) = 1 /\ groups[j].rv = fromKeyStore(TheKeyStore)
                    /\ chunk[j].cert # None
                       => /\ ~Distrusted(chunk[j])
                          /\ groups[j].rv = fromCert(chunk[j].cert)

\* verifyDEP rejects a DEP of several groups one of which has no certificate,
\* and a group it has handed to verifyGroup was the only group so far without
\* a certificate or had a certificate that passed verifyCert
VerifyDEPRule ==
    pc \in {"verifyDEP", "verified", "rejected"}
    => LET groups == Flatten(parser)
       IN  /\ (Len(groups) > 1 /\ \E j \in 1..Len(groups) : groups[j].cert = None)
              => pc # "verified"
           /\ Len(run.rvs) <= Len(groups)
           /\ \A j \in 1..Len(run.rvs) :
                 /\ groups[j].cert = None
                    => j = 1 /\ run.rvs[j] = fromKeyStore(TheKeyStore)
                 /\ groups[j].cert # None
                    => ~Distrusted(groups[j]) /\ run.rvs[j] = fromCert(groups[j].cert)

\* the packaging has raised at the chunk PendingBatch[k]: no chunk before it
\* lacks a certificate or has a distrusted one
RaisedAtChunk(k) ==
    /\ pc = "failed"
    /\ run.at = "package"
    /\ k \in 1..Len(PendingBatch)
    /\ \A i \in 1..(k - 1) :
          /\ ~LacksCertificate(PendingBatch[i])
          /\ \A j \in 1..Len(PendingBatch[i]) : ~Distrusted(PendingBatch[i][j])

\* C19 as stated: a chunk of one group without a certificate gets the verifier
\* of the key store; a chunk of several groups one of which has no certificate
\* fails with NoCertificateGiven and none of its receipts is verified; every
\* group with a certificate has it verified by verifyCert before its receipts
\* are processed; verifyDEP accepts a group without a certificate only as the
\* only group of the DEP.
C19_VerifierAssignment ==
    /\ JobsPackaged
    /\ VerifyDEPRule
    /\ (Ended /\ \E k \in 1..Len(parser) : LacksCertificate(parser[k]))
       => pc = "failed"
    /\ \A k \in 1..MaxProcs :
          (RaisedAtChunk(k) /\ LacksCertificate(PendingBatch[k]))
          => run.exc.type = "NoCertificateGivenException"

\* C19, with the order of lines 580-582 told apart: the chunk of several groups
\* fails with NoCertificateGiven unless a group before its first group without
\* a certificate has a certificate verifyCert raises for; then it fails with
\* what verifyCert raises.  In both cases none of its receipts is verified.
C19_VerifierAssignmentInOrder ==
    /\ JobsPackaged
    /\ VerifyDEPRule
    /\ (Ended /\ \E k \in 1..Len(parser) : LacksCertificate(parser[k]))
       => pc = "failed"
    /\ \A k \in 1..MaxProcs :
          (RaisedAtChunk(k) /\ LacksCertificate(PendingBatch[k]))
          => LET chunk == PendingBatch[k]
                 bad == {j \in Certified(chunk) : Distrusted(chunk[j])}
             IN  IF bad = {}
                 THEN run.exc.type = "NoCertificateGivenException"
                 ELSE \E j \in bad :
                         /\ \A i \in bad : j <= i
                         /\ run.exc = verifyCert(chunk[j].cert, chunk[j].chain,
                                                 TheKeyStore)

\* after a batch was handed out, the packaging of the next batch has raised
\* NoCertificateGiven for a chunk whose first group has a trusted certificate
\* and whose second group has none
C19_Witness ==
    /\ RaisedAtChunk(1)
    /\ run.res # None
    /\ Len(PendingBatch[1]) = 2
    /\ PendingBatch[1][1].cert # None
    /\ ~Distrusted(PendingBatch[1][1])
    /\ PendingBatch[1][2].cert = None
    /\ run.exc.type = "NoCertificateGivenException"

(***************************************************************************)
(* C21                                                                     *)
(***************************************************************************)
\* Walk[i] is the first certificate of the walk whose serial the key store
\* holds, the key store holds another fingerprint under that serial, and
\* every link below Walk[i] is validly signed
CollidesAt(i) ==
    /\ InKeyStore(Walk[i])
    /\ ~Anchored(Walk[i])
    /\ \A j \in 1..(i - 1) : ~InKeyStore(Walk[j]) /\ Signed(j)

\* C21: when the first certificate of the walk (the leaf, the chain in order,
\* the topmost included) whose serial is in the key store has a fingerprint
\* other than the stored one and all links below it are validly signed,
\* verifyCert raises CertificateSerialCollision: it never accepts on a
\* key-store entry with a different fingerprint.
C21_SerialCollision ==
    (pc \in {"certAccepted", "certRaised"} /\ \E i \in 1..Len(Walk) : CollidesAt(i))
    => /\ pc = "certRaised"
       /\ call.out.type = "CertificateSerialCollisionException"

\* the collision is raised for the topmost certificate of a chain of two
C21_Witness ==
    /\ pc = "certRaised"
    /\ Len(call.chain) = MaxChain
    /\ CollidesAt(3)
    /\ call.out.type = "CertificateSerialCollisionException"

(***************************************************************************)
(* C22                                                                     *)
(***************************************************************************)
\* the receipt IDs of the DEP
DEPIds == UNION {ChunkIds(k) : k \in 1..Len(parser)}

\* the receipt IDs of the groups handed to a job
RECURSIVE JobIds(_)
JobIds(groups) ==
    IF Len(groups) = 0 THEN {}
    ELSE {groups[1].recs[i].receiptId : i \in 1..Len(groups[1].recs)}
         \cup JobIds(Tail(groups))

\* what a successful call returns: the set passed in and the ID of every
\* receipt processed.  While the DEP is laid out, call.loc is one verifyGroup
\* over its receipts from the set of the cluster.
UsedIdsReturned ==
    /\ (pc = "parse" /\ call.loc.exc = None)
       => verifyGroupReturn(call.loc).usedReceiptIds = usedReceiptIds \cup DEPIds
    /\ (pc \in {"dep", "returned", "failed"} /\ run.res # None)
       => \A i \in 1..Len(run.res.data) :
             LET job == run.res.data[i]
             IN  (job.out # None /\ job.out.exc = None)
                 => job.out.usedRecIds
                    = job.args.usedRecIds \cup JobIds(job.args.groups)
    /\ pc \in {"returned", "verified"}
       => usedReceiptIds = run.given.usedRecIds \cup DEPIds

\* C22: the used-ID set only grows: a successful verifyGroup,
\* verifyGroupsWithVerifiers, verifyDEP or verifyParsedDEP returns the set
\* passed in together with the receipt ID of every receipt processed, and no
\* step of any sequence of calls removes an ID from the set of the cluster.
C22_UsedIdsGrow ==
    /\ []UsedIdsReturned
    /\ [][usedReceiptIds \subseteq usedReceiptIds']_vars

\* a second DEP of two chunks has been verified for a cluster that had used
\* IDs before
C22_Witness ==
    /\ pc = "returned"
    /\ run.given.usedRecIds # {}
    /\ Len(parser) >= 2
    /\ usedReceiptIds = run.given.usedRecIds \cup DEPIds
    /\ usedReceiptIds # run.given.usedRecIds

(***************************************************************************)
(* C23                                                                     *)
(***************************************************************************)
\* a run that ended with an error holds the exception, and the cluster holds
\* the used-ID set it held when the run began
ErrorPropagates ==
    pc \in {"failed", "rejected"}
    => /\ run.exc # None
       /\ usedReceiptIds = run.given.usedRecIds

\* the register list and the used-ID set of the cluster change only in the step
\* in which verifyParsedDEP or verifyDEP returns
CommittedOnReturn ==
    (cashRegisters' # cashRegisters \/ usedReceiptIds' # usedReceiptIds)
    => pc' \in {"returned", "verified"}

C24_TurnoverRoundTrip ==
    /\ pc \in {"encrypted", "decrypted"} => Len(call.enc.bytes) = call.size
    /\ pc = "decrypted" => call.dec.value = call.turnoverCounter

\* a negative counter written in 16 bytes has come back
C24_Witness ==
    /\ pc = "decrypted"
    /\ call.size = MaxTurnoverSize
    /\ call.turnoverCounter < 0 - 65535
    /\ call.enc.bytes # to_bytes(call.turnoverCounter, call.size)
    /\ call.dec.value = call.turnoverCounter

(***************************************************************************)
(* C25                                                                     *)
(***************************************************************************)
\* the receipt consumed last is not a null receipt, or is a dummy or a
\* reversal, and follows a signed-broken receipt of its register
FollowsSignedBroken ==
    /\ ~isNull(last.receipt) \/ isDummy(last.receipt) \/ isReversal(last.receipt)
    /\ last.before.prevObj # None
    /\ isSignedBroken(last.before.prevObj)

\* C25 as stated: after verifyGroup has consumed a receipt,
\* need_restore_receipt is true exactly when the receipt was not a null receipt
\* (or was a dummy or a reversal) and its predecessor in the register was
\* signed broken; after any other receipt it is false.
C25_NeedRestoreAfterAnyReceipt ==
    Accepted
    => (last.after.cashRegisterState.needRestoreReceipt <=> FollowsSignedBroken)

\* C25, for the receipts the try block gets to see: after verifyGroup has
\* consumed a receipt, need_restore_receipt is true exactly when the
\* single-receipt verifier found the receipt valid, the receipt was not a null
\* receipt (or was a dummy or a reversal) and its predecessor in the register
\* was signed broken.  A receipt tolerated as signed broken or unsigned leaves
\* the flag as it was, which is false.
C25_NeedRestoreAfterValidReceipt ==
    Accepted
    => (last.after.cashRegisterState.needRestoreReceipt
        <=> (Outcome = "valid" /\ FollowsSignedBroken))

\* a validly signed sale has been consumed after a signed-broken receipt and
\* has set the flag
C25_Witness ==
    /\ Accepted
    /\ Outcome = "valid"
    /\ FollowsSignedBroken
    /\ ~last.before.cashRegisterState.needRestoreReceipt
    /\ last.after.cashRegisterState.needRestoreReceipt

(***************************************************************************)
(* C26                                                                     *)
(***************************************************************************)
ChainingTypes ==
    {"InvalidChainingOnClusterInitialReceiptException",
     "InvalidChainingOnInitialReceiptException", "ChainingException"}

\* the locals when the loop body for r reaches the chain check (line 435)
AtChainCheck(loc, r, rv, prevStartReceiptJWS) ==
    LET l1 == verifyGroupTry(loc, r, rv)
        l2 == Then(l1, verifyGroupCaught(l1, r, rv))
        l3 == Then(l2, verifyGroupInitial(l2, r, prevStartReceiptJWS))
        l4 == Then(l3, verifyGroupPrevious(l3, r))
    IN  Then(l4, verifyGroupRecordId(l4, r))

\* r reaches the chain check and its chain value is not the expected one
ChainMismatch(loc, r, rv, prevStartReceiptJWS) ==
    LET l5 == AtChainCheck(loc, r, rv, prevStartReceiptJWS)
    IN  l5.exc = None /\ ~verifyChain(r, l5.prev, "R1")

\* the exception the claim has for a mismatch at a receipt processed from the
\* locals loc
ChainingTypeFor(loc, prevStartReceiptJWS) ==
    IF loc.prevObj # None THEN "ChainingException"
    ELSE IF prevStartReceiptJWS # None
    THEN "InvalidChainingOnClusterInitialReceiptException"
    ELSE "InvalidChainingOnInitialReceiptException"

\* a mismatching receipt raises the exception of its place, and an exception of
\* the three is only raised for a mismatching receipt
ChainClassified(loc, r, rv, k, prevStartReceiptJWS) ==
    LET after == verifyGroupReceipt(loc, r, rv, k, prevStartReceiptJWS)
    IN  /\ ChainMismatch(loc, r, rv, prevStartReceiptJWS)
           => /\ after.exc # None
              /\ after.exc.type = ChainingTypeFor(loc, prevStartReceiptJWS)
        /\ (after.exc # None /\ after.exc.type \in ChainingTypes)
           => ChainMismatch(loc, r, rv, prevStartReceiptJWS)

\* the receipts of a job and the locals of the job's verifyGroup before its
\* n-th receipt (the chunks have one group)
JobReceipts(i) == run.res.data[i].args.groups[1].recs

JobLocals(i, n) ==
    LET args == run.res.data[i].args
    IN  verifyGroupLoop(verifyGroupEnter(args.rState, args.usedRecIds),
                        SubSeq(JobReceipts(i), 1, n - 1), args.groups[1].rv, args.key,
                        args.prevStart)

\* C26 in a sequential run: a receipt whose chain value mismatches raises
\* InvalidChainingOnClusterInitialReceipt exactly when the register had no
\* previous receipt and a cluster previous-start was supplied,
\* InvalidChainingOnInitialReceipt exactly when the register had no previous
\* receipt and none was supplied, and Chaining when the receipt has a
\* predecessor in the register.
C26_ChainMismatchSequential ==
    last # None => ChainClassified(last.before, last.receipt, "rv", key, last.prevStart)

\* C26 in a chunked run: the same classification for every receipt a chunk job
\* of verifyParsedDEP processes.
C26_ChainMismatchClassified ==
    (pc \in {"dep", "failed", "returned"} /\ run # None /\ run.res # None)
    => \A i \in 1..Len(run.res.data) :
          \A n \in 1..Len(JobReceipts(i)) :
             JobLocals(i, n).exc = None
             => ChainClassified(JobLocals(i, n), JobReceipts(i)[n],
                                run.res.data[i].args.groups[1].rv,
                                run.res.data[i].args.key, run.res.data[i].args.prevStart)

(***************************************************************************)
(* C27                                                                     *)
(***************************************************************************)
\* the jobs of the batch that have run
JobsRun == {i \in 1..Len(run.res.data) : run.res.data[i].out # None}

\* C27: in a batch of verifyParsedDEP, whichever jobs have run and in whatever
\* order, the one set object handed to all jobs is still empty, so every job
\* starts from an empty used-ID set; the register state of a job is the state
\* before the batch for the first job and the projection over the chunk
\* before it for every other job; a job that returned has returned exactly the
\* receipt IDs of its chunk; and what a job returned or raised is what
\* verifyGroupsWithVerifiers gives for its own precomputed arguments.
C27_WorkerIsolation ==
    (pc = "dep" /\ run.res # None)
    => /\ run.res.shared = {}
       /\ \A i \in 1..Len(run.res.data) :
             LET args == run.res.data[i].args
                 out == run.res.data[i].out
             IN  /\ args.usedRecIds = {}
                 /\ args.rState =
                       IF i = 1 THEN run.rState
                       ELSE projectGroups(run.res.data[i - 1].args.rState,
                                          run.res.data[i - 1].args.groups, args.key)
                 /\ i \in JobsRun
                    => /\ out = verifyGroupsWithVerifiersTuple(args)
                       /\ out.exc = None => out.usedRecIds = JobIds(args.groups)

\* the second job of a batch has run while the first has not, and has
\* returned the IDs of its chunk
C27_Witness ==
    /\ pc = "dep"
    /\ run.res # None
    /\ Len(run.res.data) = 2
    /\ JobsRun = {2}
    /\ run.res.data[2].out.exc = None
    /\ run.res.data[2].out.usedRecIds = JobIds(run.res.data[2].args.groups)
    /\ run.res.data[2].out.usedRecIds # {}

(***************************************************************************)
(* C28                                                                     *)
(***************************************************************************)
\* a step that hands out the jobs of a batch
Dispatches == pc = "dep" /\ pc' = "dep" /\ run'.chunks # run.chunks

\* the used-ID sets the jobs of the batch returned, in one set
OutUsedRecIdsUnion ==
    UNION {run.res.data[i].out.usedRecIds : i \in 1..Len(run.res.data)}

\* a batch is handed out after the batch before it has come back whole and
\* has been merged, and starts where that batch ended; no job of the new
\* batch has run
BatchFollowsBatch ==
    Dispatches
    => /\ \A i \in 1..Len(run'.res.data) : run'.res.data[i].out = None
       /\ run'.res.data[1].args.rState = run'.rState
       /\ IF run.res = None
          THEN run'.rState = run.given.rState /\ run'.usedRecIds = run.given.usedRecIds
          ELSE /\ \A i \in 1..Len(run.res.data) :
                     run.res.data[i].out # None /\ run.res.data[i].out.exc = None
               /\ run'.usedRecIds = run.usedRecIds \cup OutUsedRecIdsUnion
               /\ run'.rState = run.res.data[Len(run.res.data)].out.rState

\* a successful run commits the state the last job of the last batch returned
\* and the set given with the IDs of every chunk
CommitsLastState ==
    (pc = "dep" /\ pc' = "returned")
    => /\ run.chunks = <<>>
       /\ \A i \in 1..Len(run.res.data) :
             run.res.data[i].out # None /\ run.res.data[i].out.exc = None
       /\ LET rState == run.res.data[Len(run.res.data)].out.rState
          IN  IF run.cashRegisterIdx = 0
              THEN cashRegisters' = Append(cashRegisters, rState)
              ELSE cashRegisters' = [cashRegisters EXCEPT ![run.cashRegisterIdx] = rState]
       /\ usedReceiptIds' = run.given.usedRecIds \cup DEPIds

\* C28: in verifyParsedDEP the jobs of a batch are handed out only after every
\* job of the batch before it has returned and its used-ID sets have been
\* merged; the first chunk of the batch starts from the state the last chunk
\* of the batch before it ended in; and a successful run commits the ending
\* state of the last chunk of the last batch with the merge of all per-chunk
\* used-ID sets.
C28_BatchOrdering == [][BatchFollowsBatch /\ CommitsLastState]_vars

\* a run of two batches, the first of two chunks, has succeeded
C28_Witness ==
    /\ pc = "returned"
    /\ run.nprocs = 2
    /\ Len(parser) = 3
    /\ Len(run.res.data) = 1
    /\ cashRegisters[Len(cashRegisters)] = run.res.data[1].out.rState
    /\ usedReceiptIds = run.given.usedRecIds \cup DEPIds

(***************************************************************************)
(* C29                                                                     *)
(***************************************************************************)
\* the turnover counter is as it was before the receipt processed last
CounterUntouched ==
    last.after.cashRegisterState.lastTurnoverCounter
    = last.before.cashRegisterState.lastTurnoverCounter

\* C29: processing a receipt without a key, or a dummy receipt, leaves
\* last_turnover_counter as it was and never raises InvalidTurnoverCounter,
\* whether the receipt is accepted or raises; and when a receipt raises
\* InvalidTurnoverCounter, last_turnover_counter holds the value it had before
\* that receipt.
C29_CounterOnlyReconciled ==
    last # None
    => /\ (key = None \/ isDummy(last.receipt))
          => CounterUntouched /\ ~RaisedType("InvalidTurnoverCounterException")
       /\ RaisedType("InvalidTurnoverCounterException") => CounterUntouched
       /\ last.idx <= Len(cashRegisters)
          => cashRegisters[last.idx].lastTurnoverCounter
             = last.after.cashRegisterState.lastTurnoverCounter

\* a receipt has raised InvalidTurnoverCounter when the register's counter was
\* not zero, and the sale it carries is not in the counter
C29_Witness ==
    /\ RaisedType("InvalidTurnoverCounterException")
    /\ last.before.cashRegisterState.lastTurnoverCounter # 0
    /\ turnoverDelta(last.receipt) # 0
    /\ CounterUntouched

(***************************************************************************)
(* C30                                                                     *)
(***************************************************************************)
RECURSIVE ReceiptsOf(_)
ReceiptsOf(groups) ==
    IF Len(groups) = 0 THEN <<>> ELSE groups[1].recs \o ReceiptsOf(Tail(groups))

\* the receipts of the DEP laid out so far, as one group
DEPGroup == ReceiptsOf(Flatten(parser))

\* verifyGroup on g1 and, when that returns, on g2 with what it returned
verifyGroupTwice(g1, g2, prevStart, cashRegisterState, usedIds) ==
    LET first == verifyGroup(g1, "rv", key, prevStart, cashRegisterState, usedIds)
    IN  IF first.exc # None THEN first
        ELSE verifyGroup(g2, "rv", key, prevStart, first.cashRegisterState,
                         first.usedReceiptIds)

\* the two runs raise the same exception for the same receipt, or return the
\* same register state and used-ID set
SameOutcome(a, b) ==
    /\ a.exc = b.exc
    /\ a.exc = None
       => /\ a.cashRegisterState = b.cashRegisterState
          /\ a.usedReceiptIds = b.usedReceiptIds

\* C30: for the group g of all receipts laid out, the register state and used-ID
\* set the cluster holds, and every split of g into g1 followed by g2 (either
\* possibly empty), verifyGroup on g1 and then on g2 with the returned state and
\* set has the same outcome as one call on g; a successful call on a non-empty
\* group leaves last_receipt_jws at the group's last receipt, and a call on an
\* empty group leaves the register state and the set as they were.
C30_GroupSplit ==
    pc = "parse"
    => LET info == getCashRegisterInfo(call.idx)
           g == DEPGroup
           whole == verifyGroup(g, "rv", key, info.prevStart, info.rState,
                                info.usedRecIds)
           none == verifyGroup(<<>>, "rv", key, info.prevStart, info.rState,
                               info.usedRecIds)
       IN  /\ \A n \in 0..Len(g) :
                 SameOutcome(verifyGroupTwice(SubSeq(g, 1, n), SubSeq(g, n + 1, Len(g)),
                                              info.prevStart, info.rState,
                                              info.usedRecIds),
                             whole)
           /\ (whole.exc = None /\ Len(g) > 0)
              => whole.cashRegisterState.lastReceiptJWS = g[Len(g)]
           /\ none.exc = None
           /\ none.cashRegisterState = info.rState
           /\ none.usedReceiptIds = info.usedRecIds

\* a group of three receipts is accepted by a register that had receipts
\* before, so that every split of it has been compared
C30_Witness ==
    /\ pc = "parse"
    /\ Len(DEPGroup) = 3
    /\ getCashRegisterInfo(call.idx).rState.lastReceiptJWS # None
    /\ call.loc.exc = None
    /\ verifyGroupReturn(call.loc).cashRegisterState.lastReceiptJWS = DEPGroup[3]
    /\ verifyGroupReturn(call.loc).cashRegisterState.lastTurnoverCounter
       # getCashRegisterInfo(call.idx).rState.lastTurnoverCounter

(***************************************************************************)
(* C31                                                                     *)
(***************************************************************************)
\* while verifyGroup runs, a pass of the loop writes start_receipt_jws only
\* when it met a register without a previous receipt
StartWrittenOnInitial ==
    (last # None
     /\ last.after.cashRegisterState.startReceiptJWS
        # last.before.cashRegisterState.startReceiptJWS)
    => /\ last.before.prev = None
       /\ last.after.cashRegisterState.startReceiptJWS = last.receipt

\* a register that has a last receipt starts with the first receipt accepted
\* for it
StartIsFirstAccepted ==
    \A i \in 1..Len(cashRegisters) :
       cashRegisters[i].lastReceiptJWS # None
       => /\ Len(RegisterLog(i)) > 0
          /\ cashRegisters[i].startReceiptJWS = RegisterLog(i)[1]

\* no step changes the start receipt of a register that has a last receipt
StartKept ==
    \A i \in 1..Len(cashRegisters) :
       cashRegisters[i].lastReceiptJWS # None
       => /\ i <= Len(cashRegisters')
          /\ cashRegisters'[i].startReceiptJWS = cashRegisters[i].startReceiptJWS

\* C31 for calls of verifyGroup: start_receipt_jws is assigned only while a
\* receipt is processed for a register without a previous receipt; once the
\* register has a last receipt no later receipt or group changes it; and after a
\* successful call it is the first receipt ever accepted for the register.
C31_StartWriteOnceInGroups ==
    [](StartWrittenOnInitial /\ StartIsFirstAccepted) /\ [][StartKept]_vars

\* C31 for a DEP verified by verifyParsedDEP: after a successful run the
\* register's start_receipt_jws is the one it had when the register had a last
\* receipt before the run, and the first receipt of the DEP otherwise.
C31_StartWriteOnce ==
    pc = "returned"
    => LET st == cashRegisters[IF run.cashRegisterIdx = 0 THEN Len(cashRegisters)
                               ELSE run.cashRegisterIdx]
       IN  IF run.given.rState.lastReceiptJWS # None
           THEN st.startReceiptJWS = run.given.rState.startReceiptJWS
           ELSE st.startReceiptJWS = DEPGroup[1]

(***************************************************************************)
(* C32                                                                     *)
(***************************************************************************)
\* the single-receipt verifier raised one of the two exceptions verifyGroup
\* catches for the receipt processed last
Tolerated ==
    last # None
    /\ Outcome \in {"SignatureSystemFailedException", "UnsignedNullReceiptException"}

\* C32: a receipt accepted through the tolerated signature-system-failed or
\* unsigned-null branch leaves need_restore_receipt as it was, which is clear;
\* and a tolerated receipt that follows an accepted receipt while the flag is
\* clear is never turned down for its signature or for a missing restore
\* receipt, so that signed-broken receipts are accepted one after the other
\* without a null receipt between them.
C32_ToleratedKeepsFlag ==
    Tolerated
    => /\ Accepted
          => /\ ~last.before.cashRegisterState.needRestoreReceipt
             /\ ~last.after.cashRegisterState.needRestoreReceipt
       /\ (last.before.prevObj # None /\ ~last.before.cashRegisterState.needRestoreReceipt)
          => /\ ~RaisedType("NoRestoreReceiptAfterSignatureSystemFailureException")
             /\ ~RaisedType("SignatureSystemFailedOnInitialReceiptException")
             /\ ~RaisedType(Outcome)
             /\ Raised => last.after.exc.type
                             \in {"DuplicateReceiptIdException",
                                  "ChangingRegisterIdException",
                                  "ChangingSystemTypeException", "ChainingException",
                                  "InvalidChainingOnInitialReceiptException",
                                  "InvalidChainingOnClusterInitialReceiptException",
                                  "InvalidTurnoverCounterException"}

\* three signed-broken sales have been accepted one after the other
C32_Witness ==
    /\ Accepted
    /\ Tolerated
    /\ isSignedBroken(last.receipt)
    /\ Len(LogBefore) >= 3
    /\ isSignedBroken(LogBefore[Len(LogBefore)])
    /\ isSignedBroken(LogBefore[Len(LogBefore) - 1])
    /\ ~isSignedBroken(LogBefore[Len(LogBefore) - 2])

(***************************************************************************)
(* C33                                                                     *)
(***************************************************************************)
\* the number of receipts given to balanceGroupsWithVerifiers
BalanceN == Len(recsWithVerifiers(call.groups))

\* ceil(n / nprocs), counted up
BalanceShare == CHOOSE c \in 0..BalanceN : c * call.nprocs >= BalanceN /\ (c = 0 \/ (c - 1) * call.nprocs < BalanceN)

\* what the claim has of the packages returned
BalancedPackages ==
    /\ Len(call.pkgs) <= call.nprocs
    /\ recsWithVerifiers(Flatten(call.pkgs)) = recsWithVerifiers(call.groups)
    /\ \A k \in 1..Len(call.pkgs) :
          /\ k < Len(call.pkgs) => Len(recsWithVerifiers(call.pkgs[k])) = BalanceShare
          /\ k = Len(call.pkgs)
             => /\ Len(recsWithVerifiers(call.pkgs[k])) >= 1
                /\ Len(recsWithVerifiers(call.pkgs[k])) <= BalanceShare

\* C33 as stated: for any list of groups and any nprocs >= 1,
\* balanceGroupsWithVerifiers returns at most nprocs packages whose groups,
\* put one after the other, are the receipts given, each with its verifier
\* and in the order given; every package but the last holds ceil(n / nprocs)
\* receipts, the last at least one and at most that many.
C33_Balanced ==
    pc # "balance" => (pc = "balanced" /\ BalancedPackages)

\* C33 for a list with at least one receipt, which is where the function
\* returns: the packages are as stated, and the call raises exactly when the
\* list holds no receipt.
C33_BalancedUnlessEmpty ==
    /\ pc = "balanced" => (BalanceN > 0 /\ BalancedPackages)
    /\ pc = "balanceRaised" => BalanceN = 0

\* five receipts of three groups have been dealt out to three workers as 2, 2
\* and 1, the middle package holding receipts of two groups
C33_Witness ==
    /\ pc = "balanced"
    /\ BalanceN = 5
    /\ call.nprocs = 3
    /\ Len(call.pkgs) = 3
    /\ Len(call.pkgs[2]) = 2
    /\ Len(recsWithVerifiers(call.pkgs[3])) = 1

=============================================================================
